---------------------------- MODULE Spec2Model ----------------------------
(***************************************************************************)
(* A model of the portfolio analytics engine of strata-intelligence        *)
(* (backend/app/services/analytics_engine.py) and of the collaborators it  *)
(* reads (backend/app/core/database.py, backend/app/core/config.py).       *)
(*                                                                         *)
(* Numbers.  The engine computes in IEEE doubles.  The model computes in   *)
(* exact rationals [n, d] (d > 0, lowest terms) extended with NaN (d = 0), *)
(* so that equalities the claims state ("identical", "exactly") are        *)
(* decided exactly; rounding error is not modelled.  Quantities that are   *)
(* square roots are carried as the rational under the root.                *)
(*                                                                         *)
(* Tables.  A DataFrame is [cols, dates, cell]: a set of column names, a   *)
(* set of row dates (naturals, in date order) and cell[c][t].  The price   *)
(* table of get_asset_data is complete (one price per asset and date), as  *)
(* the pivot of cleaned data is.                                           *)
(***************************************************************************)
EXTENDS Integers, Sequences, FiniteSets, TLC

VARIABLES
    asset_data,     \* rows of table "asset_data" of the one portfolio: [rows, px]
    holding_data,   \* rows of table "holding_data": Seq of [asset_name, weight_percent]
    factor_data,    \* rows of table "factor_data" of the portfolio: [rows, px]
    benchmark_data, \* rows of table "benchmark_data" of the portfolio: [rows, px]
    engine_db,      \* what analytics_engine's module global `db` is bound to
    np_random,      \* numpy's process-wide RandomState: its place in the generator's cycle
    op,             \* the function last called
    args,           \* its arguments
    result,         \* its outcome: [kind |-> "ok", value |-> ...] or [kind |-> "raise", ...]
    effects,        \* what the call did besides returning: solver runs, simulations run
    calls,          \* the engine calls in progress, when calls run concurrently
    accessed,       \* the process-wide objects these calls have read or written
    analysis_runs,  \* rows of table "analysis_runs", by id
    result_rows,    \* rows of table "results"
    tasks,          \* the analysis endpoints and background tasks in progress, by run id
    db_faults,      \* how many database operations have failed so far
    CURRENT_SESSION,\* the module global of simple_analysis.py
    file_tasks,     \* the uploads and file-processing tasks of the demo API, by file id
    temp_files,     \* the files under temp/analysis: path -> content
    uuids           \* how many uuid4() values have been drawn

vars == <<asset_data, holding_data, factor_data, benchmark_data, engine_db, np_random,
          op, args, result, effects, calls, accessed,
          analysis_runs, result_rows, tasks, db_faults,
          CURRENT_SESSION, file_tasks, temp_files, uuids>>

\* The tables the engine reads and the binding of `db`.
Tables == <<asset_data, holding_data, factor_data, benchmark_data, engine_db>>

\* The state of the analysis API and of the demo session API.
Runs == <<analysis_runs, result_rows, tasks, db_faults>>

Session == <<CURRENT_SESSION, file_tasks, temp_files, uuids>>

\* What no engine call changes: the stored tables, the binding of `db` and
\* the state of the API modules.
Stored == <<Tables, Runs, Session>>

---------------------------------------------------------------------------
(* Bounds of the model *)

MaxRows == 3        \* dated rows of the price table
MaxHoldings == 2    \* rows of the holdings table
WeightSteps == 2    \* the solver returns weights that are multiples of 1/WeightSteps
Period == 2         \* the length of the cycle of the random generator
MaxFail == 1        \* frontier levels at which the solver fails, among FailLevels
FailLevels == {1, 2, 25, 50}
PriceLevels == {1, 2}
ColOrder == <<"A", "B", "X">>            \* the sort order of column names (pivot sorts them)

---------------------------------------------------------------------------
(* Float arithmetic, as exact rationals with NaN *)

Abs(x) == IF x < 0 THEN -x ELSE x

RECURSIVE GCD(_, _)
GCD(a, b) == IF b = 0 THEN a ELSE GCD(b, a % b)

NaN == [n |-> 0, d |-> 0]

IsNaN(x) == x.d = 0

Rat(num, den) ==
    IF den = 0 THEN NaN
    ELSE LET g == GCD(Abs(num), Abs(den))
             s == IF den < 0 THEN -1 ELSE 1
         IN  [n |-> (s * num) \div g, d |-> (s * den) \div g]

Int2Rat(i) == [n |-> i, d |-> 1]

Zero == Int2Rat(0)

One == Int2Rat(1)

RAdd(a, b) ==
    IF IsNaN(a) \/ IsNaN(b) THEN NaN
    ELSE LET g == GCD(a.d, b.d)
         IN  Rat(a.n * (b.d \div g) + b.n * (a.d \div g), (a.d \div g) * b.d)

RNeg(a) == IF IsNaN(a) THEN NaN ELSE [n |-> -a.n, d |-> a.d]

RSub(a, b) == RAdd(a, RNeg(b))

RMul(a, b) ==
    IF IsNaN(a) \/ IsNaN(b) THEN NaN
    ELSE LET g1 == GCD(Abs(a.n), b.d)
             g2 == GCD(Abs(b.n), a.d)
         IN  Rat((a.n \div g1) * (b.n \div g2), (a.d \div g2) * (b.d \div g1))

\* a / b for numpy floats: x/0 is inf or nan; the engine guards its divisions,
\* so the model gives NaN for any division by zero.
RDiv(a, b) ==
    IF IsNaN(a) \/ IsNaN(b) \/ b.n = 0 THEN NaN
    ELSE RMul(a, Rat(b.d, b.n))

\* Comparisons with NaN are False, as for floats.
RLt(a, b) ==
    /\ ~IsNaN(a) /\ ~IsNaN(b)
    /\ LET g == GCD(a.d, b.d) IN a.n * (b.d \div g) < b.n * (a.d \div g)

RLe(a, b) ==
    /\ ~IsNaN(a) /\ ~IsNaN(b)
    /\ LET g == GCD(a.d, b.d) IN a.n * (b.d \div g) <= b.n * (a.d \div g)

RGt(a, b) == RLt(b, a)

RGe(a, b) == RLe(b, a)

Sign(q) == IF q.n > 0 THEN 1 ELSE IF q.n < 0 THEN -1 ELSE 0

\* Python's == on floats: NaN equals nothing, not even itself.
REq(a, b) == ~IsNaN(a) /\ ~IsNaN(b) /\ a = b

---------------------------------------------------------------------------
(* Sequences and series *)

Range(s) == {s[i] : i \in DOMAIN s}

\* f itself.  TLC keeps a function [x \in S |-> e] unevaluated and evaluates e
\* anew at each application; comparing it makes TLC tabulate it once.
Eager(f) == CHOOSE g \in {f} : g = g

\* F(v), with v evaluated once whatever the number of its uses in F.
Apply(F(_), v) == CHOOSE r \in {F(x) : x \in {v}} : TRUE

RECURSIVE SumSeq(_)
SumSeq(s) == IF s = <<>> THEN Zero ELSE RAdd(Head(s), SumSeq(Tail(s)))

\* The dates of a date set, in increasing order.
RECURSIVE SortedDates(_)
SortedDates(D) ==
    IF D = {} THEN <<>>
    ELSE LET m == CHOOSE x \in D : \A y \in D : x <= y
         IN  <<m>> \o SortedDates(D \ {m})

\* The values of a series (a function from dates to numbers), in date order.
Values(series) ==
    LET dates == SortedDates(DOMAIN series)
    IN  Eager([i \in DOMAIN dates |-> series[dates[i]]])

\* pandas Series.mean(): NaN for an empty series.
Mean(series) ==
    LET k == Cardinality(DOMAIN series)
    IN  IF k = 0 THEN NaN ELSE RDiv(SumSeq(Values(series)), Int2Rat(k))

\* pandas cov(): sample covariance (ddof = 1); NaN with fewer than 2 observations.
Cov(x, y) ==
    Apply(LAMBDA of :
              LET k == Cardinality(DOMAIN of.x)
                  dev == [t \in DOMAIN of.x |->
                             RMul(RSub(of.x[t], of.mx), RSub(of.y[t], of.my))]
              IN  IF k < 2 THEN NaN ELSE RDiv(SumSeq(Values(dev)), Int2Rat(k - 1)),
          [x |-> Eager(x), y |-> Eager(y), mx |-> Mean(x), my |-> Mean(y)])

\* The square of pandas Series.std() (ddof = 1).
Var(x) == Cov(x, x)

---------------------------------------------------------------------------
(* Outcomes of a call *)

Ok(v) == [kind |-> "ok", value |-> v]

\* An exception: its type and str(e), the latter as a sequence of text parts.
Raise(type, text) == [kind |-> "raise", exc |-> type, msg |-> text]

IsOk(r) == r.kind = "ok"

IsRaise(r) == r.kind = "raise"

---------------------------------------------------------------------------
(* The data-access collaborator *)

\* pd.DataFrame(): no column (so no 'date' column) and no row.
EmptyFrame == [date_col |-> FALSE, cols |-> {}, dates |-> {}, cell |-> <<>>]

\* DataFrame.empty
FrameEmpty(df) == df.dates = {} \/ (df.cols = {} /\ ~df.date_col)

\* db.get_asset_data: no stored row, or any exception while fetching, gives an
\* empty frame; otherwise the pivot date x asset_name of the prices, with the
\* date index reset to a column.
GetAssetData(table, fetch_fails) ==
    IF fetch_fails \/ table.rows = 0 THEN EmptyFrame
    ELSE [date_col |-> TRUE, cols |-> DOMAIN table.px,
          dates |-> 1..table.rows, cell |-> table.px]

---------------------------------------------------------------------------
(* Return Engine *)

\* The weights dict built from the holdings rows, in row order: keys in order
\* of first insertion, a later row of the same asset overwriting the weight.
RECURSIVE WeightKeys(_)
WeightKeys(rows) ==
    IF rows = <<>> THEN <<>>
    ELSE LET front == WeightKeys(SubSeq(rows, 1, Len(rows) - 1))
             name == rows[Len(rows)].asset_name
         IN  IF name \in Range(front) THEN front ELSE Append(front, name)

WeightOf(rows, name) ==
    LET last == CHOOSE i \in DOMAIN rows :
                    /\ rows[i].asset_name = name
                    /\ \A j \in DOMAIN rows : rows[j].asset_name = name => j <= i
    IN  Rat(rows[last].weight_percent, 100)

Weights(rows) ==
    [keys |-> WeightKeys(rows),
     val |-> Eager([a \in Range(WeightKeys(rows)) |-> WeightOf(rows, a)])]

\* asset_df.set_index('date').pct_change().dropna(): the first row has no
\* predecessor, is NaN throughout and is dropped.
PrevDate(D, t) == CHOOSE u \in D : u < t /\ \A v \in D : v < t => v <= u

PctChange(col, D) ==
    Eager([t \in {u \in D : \E v \in D : v < u} |->
              RSub(RDiv(Int2Rat(col[t]), Int2Rat(col[PrevDate(D, t)])), One)])

ReturnsFrame(df) ==
    LET D == {u \in df.dates : \E v \in df.dates : v < u}
    IN  [cols |-> df.cols, dates |-> D,
         cell |-> Eager([c \in df.cols |-> PctChange(df.cell[c], df.dates)])]

\* The loop of lines 76-78: portfolio_returns += returns_df[asset] * weight for
\* every key of the weights that is a column; other keys are passed over.
RECURSIVE WeightedSum(_, _, _, _)
WeightedSum(keys, w, returns_df, acc) ==
    IF keys = <<>> THEN acc
    ELSE LET asset == Head(keys)
             next == IF asset \in returns_df.cols
                     THEN [t \in returns_df.dates |->
                              RAdd(acc[t], RMul(returns_df.cell[asset][t], w[asset]))]
                     ELSE acc
         IN  WeightedSum(Tail(keys), w, returns_df, next)

\* A plausible bug: returns_df[asset] without the membership test raises
\* KeyError for a held asset that has no price column.
CalculatePortfolioReturnsNoSkip(asset_df, holdings_rows) ==
    LET weights == Weights(holdings_rows)
        returns_df == ReturnsFrame(asset_df)
    IN  IF ~asset_df.date_col THEN Raise("KeyError", <<"date">>)
        ELSE IF \E a \in Range(weights.keys) : a \notin returns_df.cols
        THEN Raise("KeyError", <<"asset">>)
        ELSE Ok(WeightedSum(weights.keys, weights.val, returns_df,
                            [t \in returns_df.dates |-> Zero]))

\* AnalyticsEngine._calculate_portfolio_returns
CalculatePortfolioReturns(asset_df, holdings_rows) ==
    LET weights == Weights(holdings_rows)
        returns_df == ReturnsFrame(asset_df)
    IN  IF ~asset_df.date_col THEN Raise("KeyError", <<"date">>)
        ELSE Ok(WeightedSum(weights.keys, weights.val, returns_df,
                            [t \in returns_df.dates |-> Zero]))

---------------------------------------------------------------------------
(* Performance Module *)

RiskFreeRate == Rat(65, 1000)           \* settings.DEFAULT_RISK_FREE_RATE = 0.065

ConfidencePct == 95                     \* settings.DEFAULT_CONFIDENCE_LEVEL = 0.95, in percent

TradingDays == 252

\* a * sqrt(b): the form of the metrics that hold a standard deviation.
Root(a, b) == [a |-> a, b |-> b]

RootIsNaN(q) == IsNaN(q.a) \/ IsNaN(q.b)

RootIsZero(q) == ~RootIsNaN(q) /\ (q.a.n = 0 \/ q.b.n = 0)

RECURSIVE ProdSeq(_)
ProdSeq(s) == IF s = <<>> THEN One ELSE RMul(Head(s), ProdSeq(Tail(s)))

\* (1 + returns).cumprod(), by date.
CumProd(returns) ==
    [t \in DOMAIN returns |->
        ProdSeq(Values([u \in {v \in DOMAIN returns : v <= t} |-> RAdd(One, returns[u])]))]

\* The running maximum of a series (expanding().max()).
RunMax(series) ==
    [t \in DOMAIN series |->
        CHOOSE m \in {series[u] : u \in {v \in DOMAIN series : v <= t}} :
            \A u \in {v \in DOMAIN series : v <= t} : RLe(series[u], m)]

\* Series.min(): NaN for an empty series.
MinOf(series) ==
    IF DOMAIN series = {} THEN NaN
    ELSE CHOOSE m \in {series[t] : t \in DOMAIN series} :
            \A t \in DOMAIN series : RLe(m, series[t])

\* The values of a series in increasing order of value.
RECURSIVE SortedValues(_)
SortedValues(series) ==
    IF DOMAIN series = {} THEN <<>>
    ELSE LET t == CHOOSE u \in DOMAIN series :
                      \A v \in DOMAIN series : RLe(series[u], series[v])
         IN  <<series[t]>> \o SortedValues([u \in DOMAIN series \ {t} |-> series[u]])

\* np.percentile(values, pct) of a non-empty series, pct an integer percent:
\* linear interpolation between the order statistics around pct/100 * (n - 1).
Percentile(series, pct) ==
    LET sorted == SortedValues(series)
        k == Len(sorted)
        lo == (pct * (k - 1)) \div 100
        frac == Rat((pct * (k - 1)) % 100, 100)
        hi == IF lo + 1 < k THEN lo + 1 ELSE lo
    IN  RAdd(sorted[lo + 1], RMul(frac, RSub(sorted[hi + 1], sorted[lo + 1])))

\* A plausible bug: the returns are added, not compounded.
TotalReturnSummed(returns) == SumSeq(Values(returns))

\* (1 + returns).prod() - 1, line 84
TotalReturn(returns) ==
    RSub(ProdSeq(Values([t \in DOMAIN returns |-> RAdd(One, returns[t])])), One)

\* AnalyticsEngine._calculate_performance_metrics.  np.percentile of an empty
\* series returns NaN or raises IndexError, by numpy version: empty_raises.
CalculatePerformanceMetrics(returns, empty_raises) ==
    LET total_return == TotalReturn(returns)
        mean == Mean(returns)
        var == Var(returns)
        annualized_return == [base |-> RAdd(One, mean)]    \* base ** 252 - 1
        volatility == Root(One, RMul(var, Int2Rat(TradingDays)))
        excess_mean == Mean([t \in DOMAIN returns |->
                                RSub(returns[t], RDiv(RiskFreeRate, Int2Rat(TradingDays)))])
        sharpe_ratio == IF RGt(var, Zero)
                        THEN Root(excess_mean, RDiv(Int2Rat(TradingDays), var))
                        ELSE Root(Zero, One)
        downside == [t \in {u \in DOMAIN returns : RLt(returns[u], Zero)} |-> returns[t]]
        \* the square of downside_deviation: 252 * var, or 0 with no downside return
        downside_sq == IF DOMAIN downside # {}
                       THEN RMul(Var(downside), Int2Rat(TradingDays))
                       ELSE Zero
        sortino_ratio == IF RGt(downside_sq, Zero)
                         THEN Root(excess_mean, RDiv(Int2Rat(TradingDays), downside_sq))
                         ELSE Root(Zero, One)
        cumulative == CumProd(returns)
        rolling_max == RunMax(cumulative)
        drawdowns == [t \in DOMAIN returns |->
                         RDiv(RSub(cumulative[t], rolling_max[t]), rolling_max[t])]
        max_drawdown == MinOf(drawdowns)
        \* annualized_return / abs(max_drawdown); NaN != 0 is True in Python
        calmar_ratio == IF max_drawdown # Zero
                        THEN [base |-> RAdd(One, mean), over |-> RMul(max_drawdown, Int2Rat(-1))]
                        ELSE [base |-> One, over |-> One]
        var_95 == Percentile(returns, 100 - ConfidencePct)
        tail == [t \in {u \in DOMAIN returns : RLe(returns[u], var_95)} |-> returns[t]]
    IN  IF DOMAIN returns = {} /\ empty_raises
        THEN Raise("IndexError", <<"index -1 is out of bounds for axis 0 with size 0">>)
        ELSE Ok([total_return |-> total_return,
                 annualized_return |-> annualized_return,
                 volatility |-> volatility,
                 sharpe_ratio |-> sharpe_ratio,
                 sortino_ratio |-> sortino_ratio,
                 max_drawdown |-> max_drawdown,
                 calmar_ratio |-> calmar_ratio,
                 var_95 |-> IF DOMAIN returns = {} THEN NaN ELSE var_95,
                 cvar_95 |-> IF DOMAIN returns = {} THEN NaN ELSE Mean(tail)])

\* DataFrame.dropna(): the rows without NaN in any of the two columns.
DropNa(frame) ==
    [portfolio |-> [t \in {u \in DOMAIN frame.portfolio :
                               ~IsNaN(frame.portfolio[u]) /\ ~IsNaN(frame.benchmark[u])}
                       |-> frame.portfolio[t]],
     benchmark |-> [t \in {u \in DOMAIN frame.benchmark :
                               ~IsNaN(frame.portfolio[u]) /\ ~IsNaN(frame.benchmark[u])}
                       |-> frame.benchmark[t]]]

\* A plausible bug: fillna(0) in the place of dropna().
AlignedDataFillingZero(portfolio_returns, benchmark_returns) ==
    LET index == DOMAIN portfolio_returns \cup DOMAIN benchmark_returns
        column(series) == [t \in index |-> IF t \in DOMAIN series THEN series[t] ELSE Zero]
    IN  [portfolio |-> Eager(column(portfolio_returns)),
         benchmark |-> Eager(column(benchmark_returns))]

\* pd.DataFrame({'portfolio': ..., 'benchmark': ...}).dropna(): the frame is
\* indexed by the union of the two indexes, NaN where a series has no value.
AlignedData(portfolio_returns, benchmark_returns) ==
    LET index == DOMAIN portfolio_returns \cup DOMAIN benchmark_returns
        column(series) == [t \in index |-> IF t \in DOMAIN series THEN series[t] ELSE NaN]
    IN  DropNa([portfolio |-> Eager(column(portfolio_returns)),
                benchmark |-> Eager(column(benchmark_returns))])

\* np.cov(x, y)[0, 1]: ddof = 1, NaN with one observation.
NpCov(x, y) == Cov(x, y)

\* np.var(x): ddof = 0, the mean of the squared deviations.
NpVar(x) ==
    Apply(LAMBDA mx :
              Mean([t \in DOMAIN x |-> RMul(RSub(x[t], mx), RSub(x[t], mx))]),
          Mean(x))

\* AnalyticsEngine._compare_with_benchmark, lines 134-162, on the aligned rows.
CompareAligned(portfolio_aligned, benchmark_aligned) ==
    LET benchmark_metrics == CalculatePerformanceMetrics(benchmark_aligned, FALSE).value
        excess_returns == Eager([t \in DOMAIN portfolio_aligned |->
                                    RSub(portfolio_aligned[t], benchmark_aligned[t])])
        covariance == NpCov(portfolio_aligned, benchmark_aligned)
        benchmark_variance == NpVar(benchmark_aligned)
        beta == IF RGt(benchmark_variance, Zero)
                THEN RDiv(covariance, benchmark_variance)
                ELSE Zero
        daily_rf == RDiv(RiskFreeRate, Int2Rat(TradingDays))
        alpha == RSub(Mean(portfolio_aligned),
                      RAdd(daily_rf, RMul(beta, RSub(Mean(benchmark_aligned), daily_rf))))
        excess_var == Var(excess_returns)
    IN  [benchmark_metrics |-> benchmark_metrics,
         alpha |-> RMul(alpha, Int2Rat(TradingDays)),
         beta |-> beta,
         information_ratio |-> IF RGt(excess_var, Zero)
                               THEN Root(Mean(excess_returns),
                                         RDiv(Int2Rat(TradingDays), excess_var))
                               ELSE Root(Zero, One),
         tracking_error |-> Root(One, RMul(excess_var, Int2Rat(TradingDays)))]

\* None where a record may be given
NoRecord == [none |-> TRUE]

\* AnalyticsEngine._compare_with_benchmark: None when no row is left.
CompareWithBenchmark(portfolio_returns, benchmark_returns) ==
    Apply(LAMBDA aligned_data :
              IF DOMAIN aligned_data.portfolio = {} THEN NoRecord
              ELSE CompareAligned(aligned_data.portfolio, aligned_data.benchmark),
          AlignedData(portfolio_returns, benchmark_returns))

\* A plausible bug: an entry for every holding, 0 for one without prices.
CalculateReturnAttributionOfEveryHolding(asset_df, holdings_rows) ==
    LET returns_df == ReturnsFrame(asset_df)
        weights == Weights(holdings_rows)
    IN  [a \in Range(weights.keys) |->
            IF a \in returns_df.cols
            THEN RMul(weights.val[a], RMul(Mean(returns_df.cell[a]), Int2Rat(TradingDays)))
            ELSE Zero]

\* AnalyticsEngine._calculate_return_attribution: one entry per held asset that
\* is a price column, weight * mean(return) * 252.
CalculateReturnAttribution(asset_df, holdings_rows) ==
    LET returns_df == ReturnsFrame(asset_df)
        weights == Weights(holdings_rows)
        held == Range(weights.keys) \cap returns_df.cols
    IN  [a \in held |->
            RMul(weights.val[a], RMul(Mean(returns_df.cell[a]), Int2Rat(TradingDays)))]

---------------------------------------------------------------------------
(* Entry points: what every one of them shares *)

\* Python's None
None == "None"

\* None where a number may be given
NoNumber == [none |-> TRUE]

\* `if x:` on an optional string
TruthyStr(x) == x # None /\ x # ""

\* `if x:` on an optional number: None and 0 are falsy, NaN is truthy
TruthyNum(x) == x # NoNumber /\ (IsNaN(x) \/ x.n # 0)

\* A plausible bug: the except clause re-raises the error as it came.
WrapBare(prefix, r) == r

\* except Exception as e: raise ValueError(f"<prefix>: {str(e)}")
Wrap(prefix, r) == IF IsRaise(r) THEN Raise("ValueError", <<prefix>> \o r.msg) ELSE r

\* `db.<method>` with the module global db still None
NoDb(method) == Raise("AttributeError", <<"'NoneType' object has no attribute", method>>)

\* The holdings query: the rows, or the exception the client raises.
HoldingsQueryFails == Raise("APIError", <<"holding_data query failed">>)

NoEffects ==
    [minimize_calls |-> 0, simulations |-> 0, draws |-> 0, objective |-> "None",
     constraints |-> {}, success |-> "None", frontier_failed |-> {}]

---------------------------------------------------------------------------
(* calculate_historical_performance *)

\* lines 26-57, the body of the try
PerformanceBody(db, table, holdings, benchmark_name, query_fails, empty_raises) ==
    IF db = None THEN NoDb("get_asset_data")
    ELSE LET asset_df == GetAssetData(table, FALSE)
         IN  IF FrameEmpty(asset_df) THEN Raise("ValueError", <<"No asset data found">>)
             ELSE IF query_fails THEN HoldingsQueryFails
             ELSE IF holdings = <<>> THEN Raise("ValueError", <<"No holdings data found">>)
             ELSE LET portfolio_returns == CalculatePortfolioReturns(asset_df, holdings)
                      metrics == CalculatePerformanceMetrics(portfolio_returns.value, empty_raises)
                  IN  IF IsRaise(portfolio_returns) THEN portfolio_returns
                      ELSE IF IsRaise(metrics) THEN metrics
                      \* SupabaseDatabase defines no get_benchmark_data
                      ELSE IF TruthyStr(benchmark_name)
                      THEN Raise("AttributeError",
                                 <<"'SupabaseDatabase' object has no attribute", "get_benchmark_data">>)
                      ELSE Ok([portfolio_metrics |-> metrics.value,
                               benchmark_comparison |-> None,
                               time_series |-> portfolio_returns.value,
                               attribution |-> CalculateReturnAttribution(asset_df, holdings)])

\* AnalyticsEngine.calculate_historical_performance
CalculateHistoricalPerformance(db, table, holdings, benchmark_name, query_fails, empty_raises) ==
    Wrap("Performance calculation failed: ",
         PerformanceBody(db, table, holdings, benchmark_name, query_fails, empty_raises))

---------------------------------------------------------------------------
(* Optimization Module *)

NPoints == 50       \* n_points, the default of _generate_efficient_frontier

\* The columns of a frame in their order (a pivot's columns are sorted).
SortedCols(cols) == SelectSeq(ColOrder, LAMBDA c : c \in cols)

Dot(x, y) == SumSeq([i \in DOMAIN x |-> RMul(x[i], y[i])])

\* np.dot(w, np.dot(cov_matrix, w)), cov a matrix as a sequence of rows
Quad(x, cov) == Dot(x, [i \in DOMAIN x |-> Dot(cov[i], x)])

\* returns_df.mean() * 252, in column order
ExpectedReturns(returns_df) ==
    LET order == SortedCols(returns_df.cols)
    IN  Eager([i \in DOMAIN order |->
                  RMul(Mean(returns_df.cell[order[i]]), Int2Rat(TradingDays))])

\* returns_df.cov() * 252, in column order
CovMatrix(returns_df) ==
    LET order == SortedCols(returns_df.cols)
    IN  Eager([i \in DOMAIN order |-> [j \in DOMAIN order |->
                  RMul(Cov(returns_df.cell[order[i]], returns_df.cell[order[j]]),
                       Int2Rat(TradingDays))]])

\* The weight vectors of length k whose components are multiples of 1/steps
\* and sum to total/steps.
RECURSIVE Lattice(_, _, _)
Lattice(k, total, steps) ==
    IF k = 0 THEN (IF total = 0 THEN {<<>>} ELSE {})
    ELSE UNION {{<<Rat(j, steps)>> \o rest : rest \in Lattice(k - 1, total - j, steps)} :
                    j \in 0..total}

\* The points of the two-asset problem that the two equalities sum(x) = 1 and
\* x . mu = target determine, when they determine one.
Determined(mu, target) ==
    IF Len(mu) = 2 /\ ~IsNaN(mu[1]) /\ ~IsNaN(mu[2]) /\ mu[1] # mu[2]
       /\ target # NoNumber /\ ~IsNaN(target)
    THEN LET x2 == RDiv(RSub(target, mu[1]), RSub(mu[2], mu[1]))
         IN  {<<RSub(One, x2), x2>>}
    ELSE {}

\* The points scipy.optimize.minimize may return with success = True: those of
\* the lattice, or determined by the equalities, that satisfy the constraints
\* and the bounds it was passed.
Feasible(problem, steps) ==
    {x \in Lattice(Len(problem.mu), steps, steps) \cup Determined(problem.mu, problem.target) :
        /\ SumSeq(x) = One                                         \* np.sum(x) - 1 = 0
        /\ \A i \in DOMAIN x : RLe(Zero, x[i]) /\ RLe(x[i], One)    \* bounds (0, 1)
        /\ "target_return" \in problem.constraints
              => REq(Dot(x, problem.mu), problem.target)}

\* minimize(objective, x0, method='SLSQP', bounds, constraints): the solver is
\* not modelled step by step.  It reports failure, or success with a feasible
\* point; which, and which point, is the solver's: [ok, pick].
Minimize(problem, steps, solver) ==
    LET F == Feasible(problem, steps)
    IN  IF ~solver.ok \/ F = {} THEN [success |-> FALSE, x |-> <<>>, fun |-> NaN]
        ELSE LET x == IF solver.pick \in F THEN solver.pick ELSE CHOOSE y \in F : TRUE
             IN  [success |-> TRUE, x |-> x,
                  fun |-> IF problem.objective = "variance" THEN Quad(x, problem.cov) ELSE NaN]

\* np.linspace(lo, hi, num)
Linspace(lo, hi, num) ==
    Eager([k \in 1..num |->
              IF num = 1 THEN lo ELSE RAdd(lo, RMul(Rat(k - 1, num - 1), RSub(hi, lo)))])

\* expected_returns.min() / .max(): NaN entries are skipped, NaN if none is left
MinOfSeq(s) ==
    LET S == {s[i] : i \in {j \in DOMAIN s : ~IsNaN(s[j])}}
    IN  IF S = {} THEN NaN ELSE CHOOSE m \in S : \A v \in S : RLe(m, v)

MaxOfSeq(s) ==
    LET S == {s[i] : i \in {j \in DOMAIN s : ~IsNaN(s[j])}}
    IN  IF S = {} THEN NaN ELSE CHOOSE m \in S : \A v \in S : RLe(v, m)

\* The minimum-variance problem of one frontier level (lines 464-471)
FrontierProblem(mu, cov, target_ret) ==
    [objective |-> "variance", constraints |-> {"sum_to_one", "target_return"},
     mu |-> mu, cov |-> cov, target |-> target_ret, risk_aversion |-> NoNumber]

RECURSIVE FrontierFrom(_, _, _)
FrontierFrom(k, levels, solved) ==
    IF k > Len(levels) THEN <<>>
    ELSE (IF solved[k].success
          THEN <<[return |-> levels[k], risk |-> Root(One, solved[k].fun)]>>
          ELSE <<>>) \o FrontierFrom(k + 1, levels, solved)

\* A plausible bug: the failed levels are kept, with the risk of no solve.
GenerateEfficientFrontierKeepingFailures(mu, cov, n_points, minimize) ==
    LET levels == Linspace(MinOfSeq(mu), MaxOfSeq(mu), n_points)
        solved == [k \in 1..n_points |-> minimize[levels[k]]]
    IN  [points |-> [k \in 1..n_points |->
                        [return |-> levels[k], risk |-> Root(One, solved[k].fun)]],
         minimize_calls |-> n_points,
         failed |-> {k \in 1..n_points : ~solved[k].success}]

\* A plausible bug: a failed level is reported with a risk of 0.
GenerateEfficientFrontierZeroOnFailure(mu, cov, n_points, minimize) ==
    LET levels == Linspace(MinOfSeq(mu), MaxOfSeq(mu), n_points)
        solved == [k \in 1..n_points |-> minimize[levels[k]]]
    IN  [points |-> [k \in 1..n_points |->
                        [return |-> levels[k],
                         risk |-> Root(One, IF solved[k].success THEN solved[k].fun ELSE Zero)]],
         minimize_calls |-> n_points,
         failed |-> {k \in 1..n_points : ~solved[k].success}]

\* AnalyticsEngine._generate_efficient_frontier: the points, and the number of
\* runs of the solver it made.  `minimize` is the solver on the problems of
\* this frontier, which differ in target_ret alone: minimize[target_ret] is the
\* result of the run of line 474.
GenerateEfficientFrontier(mu, cov, n_points, minimize) ==
    LET levels == Linspace(MinOfSeq(mu), MaxOfSeq(mu), n_points)
        solved == [k \in 1..n_points |-> minimize[levels[k]]]
    IN  [points |-> FrontierFrom(1, levels, solved), minimize_calls |-> n_points,
         failed |-> {k \in 1..n_points : ~solved[k].success}]

\* The objective and the constraints of the main solve (lines 398-421)
MarkowitzProblem(mu, cov, target_return, risk_aversion) ==
    [objective |-> IF TruthyNum(target_return) THEN "variance"
                   ELSE IF TruthyNum(risk_aversion) THEN "utility"
                   ELSE "sharpe",
     constraints |-> IF TruthyNum(target_return) THEN {"sum_to_one", "target_return"}
                     ELSE {"sum_to_one"},
     mu |-> mu, cov |-> cov, target |-> target_return, risk_aversion |-> risk_aversion]

\* dict(zip(returns_df.columns, result.x))
ZipDict(keys, values) ==
    LET k == IF Len(keys) < Len(values) THEN Len(keys) ELSE Len(values)
    IN  [c \in {keys[i] : i \in 1..k} |->
            values[CHOOSE i \in 1..k : keys[i] = c]]

\* What a call of run_markowitz_optimization did: the runs of the solver, the
\* problem of the main solve, what the main solve reported (result.success)
\* and the frontier levels whose solve failed.
Effects(minimize_calls, problem, success, frontier_failed) ==
    [minimize_calls |-> minimize_calls, simulations |-> 0, draws |-> 0,
     objective |-> problem.objective, constraints |-> problem.constraints,
     success |-> success, frontier_failed |-> frontier_failed]

NoProblem == [objective |-> None, constraints |-> {}]

\* A plausible bug: the weights are zipped with the columns of asset_df before
\* set_index, the first of which is 'date'.
MarkowitzDataWithDateColumn(db, table) ==
    LET asset_df == GetAssetData(table, FALSE)
        returns_df == ReturnsFrame(asset_df)
    IN  IF db = None THEN [fetch |-> NoDb("get_asset_data")]
        ELSE IF FrameEmpty(asset_df) THEN [fetch |-> Raise("ValueError", <<"No asset data found">>)]
        ELSE [fetch |-> Ok(None),
              columns |-> <<"date">> \o SortedCols(returns_df.cols),
              expected_returns |-> ExpectedReturns(returns_df),
              cov_matrix |-> CovMatrix(returns_df)]

\* lines 386-396, the start of the try: the price table is fetched and its
\* statistics computed, unless fetching raises or the table is empty.
MarkowitzData(db, table) ==
    LET asset_df == GetAssetData(table, FALSE)
        returns_df == ReturnsFrame(asset_df)
    IN  IF db = None THEN [fetch |-> NoDb("get_asset_data")]
        ELSE IF FrameEmpty(asset_df) THEN [fetch |-> Raise("ValueError", <<"No asset data found">>)]
        ELSE [fetch |-> Ok(None),
              columns |-> SortedCols(returns_df.cols),
              expected_returns |-> ExpectedReturns(returns_df),
              cov_matrix |-> CovMatrix(returns_df)]

\* A plausible bug: the frontier is generated before result.success is tested.
MarkowitzBodyFrontierFirst(data, target_return, risk_aversion, steps, solver, frontier) ==
    IF IsRaise(data.fetch) THEN [result |-> data.fetch, effects |-> Effects(0, NoProblem, None, {})]
    ELSE LET mu == data.expected_returns
             cov == data.cov_matrix
             problem == MarkowitzProblem(mu, cov, target_return, risk_aversion)
             res == Minimize(problem, steps, solver)
             opt_return == Dot(res.x, mu)
             opt_var == Quad(res.x, cov)
         IN  IF res.success
             THEN [result |->
                      Ok([optimal_weights |-> ZipDict(data.columns, res.x),
                          expected_return |-> opt_return,
                          expected_risk |-> Root(One, opt_var),
                          sharpe_ratio |-> IF RGt(opt_var, Zero)
                                           THEN Root(RSub(opt_return, RiskFreeRate),
                                                     RDiv(One, opt_var))
                                           ELSE Root(Zero, One),
                          efficient_frontier |-> frontier.points]),
                   effects |-> Effects(1 + frontier.minimize_calls, problem, "True",
                                       frontier.failed)]
             ELSE [result |-> Raise("ValueError", <<"Optimization failed to converge">>),
                   effects |-> Effects(1 + frontier.minimize_calls, problem, "False",
                                       frontier.failed)]

\* lines 398-448, the rest of the try: the outcome, and what the call did (the
\* problem handed to the main solve and the number of runs of the solver).
\* `frontier` is what _generate_efficient_frontier does when it is called.
MarkowitzBody(data, target_return, risk_aversion, steps, solver, frontier) ==
    IF IsRaise(data.fetch) THEN [result |-> data.fetch, effects |-> Effects(0, NoProblem, None, {})]
    ELSE LET mu == data.expected_returns
             cov == data.cov_matrix
             problem == MarkowitzProblem(mu, cov, target_return, risk_aversion)
             res == Minimize(problem, steps, solver)
             opt_return == Dot(res.x, mu)
             opt_var == Quad(res.x, cov)
         IN  IF res.success
             THEN [result |->
                      Ok([optimal_weights |-> ZipDict(data.columns, res.x),
                          expected_return |-> opt_return,
                          expected_risk |-> Root(One, opt_var),
                          sharpe_ratio |-> IF RGt(opt_var, Zero)
                                           THEN Root(RSub(opt_return, RiskFreeRate),
                                                     RDiv(One, opt_var))
                                           ELSE Root(Zero, One),
                          efficient_frontier |-> frontier.points]),
                   effects |-> Effects(1 + frontier.minimize_calls, problem, "True",
                                       frontier.failed)]
             ELSE [result |-> Raise("ValueError", <<"Optimization failed to converge">>),
                   effects |-> Effects(1, problem, "False", {})]

\* AnalyticsEngine.run_markowitz_optimization
RunMarkowitzOptimization(data, target_return, risk_aversion, steps, solver, frontier) ==
    LET run == MarkowitzBody(data, target_return, risk_aversion, steps, solver, frontier)
    IN  [run EXCEPT !.result = Wrap("Optimization failed: ", run.result)]

---------------------------------------------------------------------------
(* Risk Module *)

RollingWindow == 60     \* window, the default of _calculate_rolling_metrics

\* Pearson correlation cov / (std_x std_y), as sign(cov) * sqrt(cov^2 / (var_x
\* var_y)); NaN with fewer than 2 observations or a constant series.
Corr(x, y) ==
    Apply(LAMBDA of :
              IF IsNaN(of.c) \/ ~RGt(of.vx, Zero) \/ ~RGt(of.vy, Zero) THEN Root(NaN, NaN)
              ELSE Root(Int2Rat(Sign(of.c)), RDiv(RMul(of.c, of.c), RMul(of.vx, of.vy))),
          [c |-> Cov(x, y), vx |-> Var(x), vy |-> Var(y)])

\* A plausible bug: weights.get(col) with a default of 1.
WeightsArrayOfOnes(weights, returns_df) ==
    LET order == SortedCols(returns_df.cols)
    IN  Eager([i \in DOMAIN order |->
                  IF order[i] \in Range(weights.keys) THEN weights.val[order[i]] ELSE One])

\* np.array([weights.get(col, 0) for col in returns_df.columns])
WeightsArray(weights, returns_df) ==
    LET order == SortedCols(returns_df.cols)
    IN  Eager([i \in DOMAIN order |->
                  IF order[i] \in Range(weights.keys) THEN weights.val[order[i]] ELSE Zero])

\* A plausible bug: the marginal contribution is taken once in both places.
VarianceSharesTakenOnce(weights, returns_df, times) ==
    LET order == SortedCols(returns_df.cols)
        cov_matrix == CovMatrix(returns_df)
        weights_array == WeightsArray(weights, returns_df)
        portfolio_variance == Quad(weights_array, cov_matrix)
    IN  [asset \in returns_df.cols \cap Range(weights.keys) |->
            LET i == CHOOSE j \in DOMAIN order : order[j] = asset
            IN  IF RGt(portfolio_variance, Zero)
                THEN RDiv(RMul(weights.val[asset], Dot(cov_matrix[i], weights_array)),
                          portfolio_variance)
                ELSE Zero]

\* The share of each held column in the portfolio variance, times `times`:
\* lines 241-245 (times = 2) and 265-268 (times = 1).
VarianceShares(weights, returns_df, times) ==
    LET order == SortedCols(returns_df.cols)
        cov_matrix == CovMatrix(returns_df)
        weights_array == WeightsArray(weights, returns_df)
        portfolio_variance == Quad(weights_array, cov_matrix)
    IN  [asset \in returns_df.cols \cap Range(weights.keys) |->
            LET i == CHOOSE j \in DOMAIN order : order[j] = asset
                marginal == RMul(Int2Rat(times), Dot(cov_matrix[i], weights_array))
            IN  IF RGt(portfolio_variance, Zero)
                THEN RDiv(RMul(weights.val[asset], marginal), portfolio_variance)
                ELSE Zero]

\* AnalyticsEngine._calculate_risk_metrics
CalculateRiskMetrics(asset_df, weights) ==
    LET returns_df == ReturnsFrame(asset_df)
        portfolio_returns == WeightedSum(weights.keys, weights.val, returns_df,
                                         [t \in returns_df.dates |-> Zero])
    IN  [portfolio_volatility |-> Root(One, RMul(Var(portfolio_returns), Int2Rat(TradingDays))),
         correlation_matrix |->
             [a \in returns_df.cols |-> [b \in returns_df.cols |->
                 Corr(returns_df.cell[a], returns_df.cell[b])]],
         var_breakdown |-> VarianceShares(weights, returns_df, 2),
         portfolio_variance |-> Quad(WeightsArray(weights, returns_df), CovMatrix(returns_df))]

\* AnalyticsEngine._calculate_risk_decomposition
CalculateRiskDecomposition(asset_df, weights) ==
    [asset_contributions |-> VarianceShares(weights, ReturnsFrame(asset_df), 1),
     sector_contributions |-> <<>>,
     factor_contributions |-> <<>>]

\* The k-th central moment of a sequence of numbers (ddof = 0)
RECURSIVE Power(_, _)
Power(x, k) == IF k = 0 THEN One ELSE RMul(x, Power(x, k - 1))

Moment(values, k) ==
    LET mean == RDiv(SumSeq(values), Int2Rat(Len(values)))
    IN  RDiv(SumSeq([i \in DOMAIN values |-> Power(RSub(values[i], mean), k)]),
             Int2Rat(Len(values)))

\* AnalyticsEngine._calculate_rolling_metrics: one entry for each i in
\* range(window, len(returns)), over returns.iloc[i-window:i], dated index[i].
CalculateRollingMetrics(returns, window) ==
    LET dates == SortedDates(DOMAIN returns)
        entry(i) ==      \* i counts from 0, as in the code
            LET window_returns == [t \in {dates[j] : j \in (i - window + 1)..i} |-> returns[t]]
                values == Values(window_returns)
                m2 == Moment(values, 2)
            IN  [date |-> dates[i + 1],
                 volatility |-> Root(One, RMul(Var(window_returns), Int2Rat(TradingDays))),
                 var_95 |-> Percentile(window_returns, 5),
                 skewness |-> IF RGt(m2, Zero)
                              THEN Root(Moment(values, 3), RDiv(One, Power(m2, 3)))
                              ELSE Root(NaN, NaN),
                 kurtosis |-> IF RGt(m2, Zero)
                              THEN RSub(RDiv(Moment(values, 4), RMul(m2, m2)), Int2Rat(3))
                              ELSE NaN]
    IN  [k \in 1..(IF Len(dates) > window THEN Len(dates) - window ELSE 0) |->
            entry(window + k - 1)]

\* lines 186-211, the body of the try
RiskBody(db, table, holdings, query_fails) ==
    LET asset_df == GetAssetData(table, FALSE)
        portfolio_returns == CalculatePortfolioReturns(asset_df, holdings)
        weights == Weights(holdings)
    IN  IF db = None THEN NoDb("get_asset_data")
        ELSE IF query_fails THEN HoldingsQueryFails
        ELSE IF FrameEmpty(asset_df) \/ holdings = <<>>
        THEN Raise("ValueError", <<"Insufficient data for risk analysis">>)
        ELSE IF IsRaise(portfolio_returns) THEN portfolio_returns
        ELSE Ok([risk_metrics |-> CalculateRiskMetrics(asset_df, weights),
                 risk_decomposition |-> CalculateRiskDecomposition(asset_df, weights),
                 rolling_metrics |-> CalculateRollingMetrics(portfolio_returns.value,
                                                             RollingWindow)])

\* AnalyticsEngine.generate_risk_diagnostics
GenerateRiskDiagnostics(db, table, holdings, query_fails) ==
    Wrap("Risk analysis failed: ", RiskBody(db, table, holdings, query_fails))

---------------------------------------------------------------------------
(* Sensitivity Module *)

\* A factor loading is a correlation, the square root of a rational, and an
\* impact is a sum of multiples of loadings.  Such a number is carried as its
\* terms: terms[m] is the coefficient of sqrt(m), m square-free, none zero.
NoTerms == [m \in {} |-> Zero]

SurdNaN == [nan |-> TRUE, terms |-> NoTerms]

SurdZero == [nan |-> FALSE, terms |-> NoTerms]

\* The greatest k from `k` on whose square divides n
RECURSIVE SquarePart(_, _, _)
SquarePart(n, k, best) ==
    IF k * k > n THEN best
    ELSE SquarePart(n, k + 1, IF n % (k * k) = 0 THEN k ELSE best)

\* a * sqrt(b), a and b rational
Surd(a, b) ==
    IF IsNaN(a) \/ IsNaN(b) \/ b.n < 0 THEN SurdNaN
    ELSE IF a.n = 0 \/ b.n = 0 THEN SurdZero
    ELSE LET k == SquarePart(b.n * b.d, 1, 1)     \* sqrt(n/d) = sqrt(n d) / d
             m == (b.n * b.d) \div (k * k)
         IN  [nan |-> FALSE, terms |-> [j \in {m} |-> RMul(a, Rat(k, b.d))]]

SurdAdd(x, y) ==
    IF x.nan \/ y.nan THEN SurdNaN
    ELSE LET coef(m) == RAdd(IF m \in DOMAIN x.terms THEN x.terms[m] ELSE Zero,
                             IF m \in DOMAIN y.terms THEN y.terms[m] ELSE Zero)
         IN  [nan |-> FALSE,
              terms |-> [m \in {j \in DOMAIN x.terms \cup DOMAIN y.terms : coef(j).n # 0} |->
                            coef(m)]]

SurdScale(q, x) ==
    IF x.nan \/ IsNaN(q) THEN SurdNaN
    ELSE IF q.n = 0 THEN SurdZero
    ELSE [nan |-> FALSE, terms |-> [m \in DOMAIN x.terms |-> RMul(q, x.terms[m])]]

\* db.get_factor_data: as get_asset_data, on table "factor_data"
GetFactorData(table, fetch_fails) == GetAssetData(table, fetch_fails)

\* AnalyticsEngine._calculate_factor_loadings.  The inner join keeps the dates
\* both frames have, and raises if they share a column name.
CalculateFactorLoadings(asset_df, factor_df) ==
    Apply(LAMBDA of :
              LET dates == of.asset_returns.dates \cap of.factor_returns.dates
                  aligned(frame, col) == [t \in dates |-> frame.cell[col][t]]
                  loading(factor, asset) ==
                      Apply(LAMBDA correlation :
                                IF RootIsNaN(correlation) THEN SurdZero
                                ELSE Surd(correlation.a, correlation.b),
                            Corr(aligned(of.asset_returns, asset),
                                 aligned(of.factor_returns, factor)))
              IN  IF of.asset_returns.cols \cap of.factor_returns.cols # {}
                  THEN Raise("ValueError", <<"columns overlap but no suffix specified">>)
                  ELSE Ok(Eager([factor \in of.factor_returns.cols |->
                              Eager([asset \in of.asset_returns.cols |->
                                        loading(factor, asset)])])),
          [asset_returns |-> ReturnsFrame(asset_df), factor_returns |-> ReturnsFrame(factor_df)])

RECURSIVE SurdSum(_, _)
SurdSum(S, f) ==
    IF S = {} THEN SurdZero
    ELSE LET x == CHOOSE y \in S : TRUE IN SurdAdd(f[x], SurdSum(S \ {x}, f))

\* A plausible bug: the test `asset in weights` guards only the sum.
CalculateShockImpactOfEveryLoading(loadings, shock, weights) ==
    LET held == DOMAIN loadings \cap Range(weights.keys)
        asset_impacts == [asset \in DOMAIN loadings |-> SurdScale(shock, loadings[asset])]
    IN  [portfolio_impact |->
             SurdSum(held, [asset \in held |->
                               SurdScale(weights.val[asset], asset_impacts[asset])]),
         asset_impacts |-> asset_impacts]

\* AnalyticsEngine._calculate_shock_impact
CalculateShockImpact(loadings, shock, weights) ==
    LET held == DOMAIN loadings \cap Range(weights.keys)
        asset_impacts == [asset \in held |-> SurdScale(shock, loadings[asset])]
    IN  [portfolio_impact |->
             SurdSum(held, [asset \in held |->
                               SurdScale(weights.val[asset], asset_impacts[asset])]),
         asset_impacts |-> asset_impacts]

\* stress_levels (line 371)
StressLevels == <<Rat(-2, 100), Rat(-1, 100), Zero, Rat(1, 100), Rat(2, 100)>>

\* str(n) of a natural number
RECURSIVE DecimalString(_)
DecimalString(n) ==
    LET digit == <<"0", "1", "2", "3", "4", "5", "6", "7", "8", "9">>[(n % 10) + 1]
    IN  IF n < 10 THEN digit ELSE DecimalString(n \div 10) \o digit

\* The integer nearest to q, a tie going to the even one.
RoundHalfEven(q) ==
    LET floor == q.n \div q.d
        twice == 2 * (q.n - floor * q.d)
    IN  IF twice < q.d THEN floor
        ELSE IF twice > q.d THEN floor + 1
        ELSE IF floor % 2 = 0 THEN floor ELSE floor + 1

\* f"{level:.1%}": the level times 100, with one decimal, and a percent sign
FormatPercent(level) ==
    LET tenths == RoundHalfEven(RMul(level, Int2Rat(1000)))
    IN  (IF level.n < 0 THEN "-" ELSE "")
        \o DecimalString(Abs(tenths) \div 10) \o "." \o DecimalString(Abs(tenths) % 10) \o "%"

\* AnalyticsEngine._generate_stress_test_matrix: matrix[factor][label] is
\* assigned level after level, so that of two levels with one label the later
\* stays.
GenerateStressTestMatrix(factor_loadings, weights) ==
    LET labels == Eager([i \in DOMAIN StressLevels |-> FormatPercent(StressLevels[i])])
        last(label) == CHOOSE i \in DOMAIN labels :
                           /\ labels[i] = label
                           /\ \A j \in DOMAIN labels : labels[j] = label => j <= i
    IN  [factor \in DOMAIN factor_loadings |->
            [label \in Range(labels) |->
                CalculateShockImpact(factor_loadings[factor], StressLevels[last(label)],
                                     weights).portfolio_impact]]

\* A plausible bug: every factor of the loadings gets a result, with a shock
\* of 0 where none was requested.
SensitivityRecordOfEveryFactor(factor_loadings, weights, shocks) ==
    LET shock(f) == IF f \in DOMAIN shocks THEN shocks[f] ELSE Zero
        results == Eager([factor_name \in DOMAIN factor_loadings |->
                       LET impact == CalculateShockImpact(factor_loadings[factor_name],
                                                          shock(factor_name), weights)
                       IN  [shock_value |-> shock(factor_name),
                            portfolio_impact |-> impact.portfolio_impact,
                            asset_impacts |-> impact.asset_impacts]])
    IN  [individual_results |-> results,
         combined_impact |->
             SurdSum(DOMAIN results, [f \in DOMAIN results |-> results[f].portfolio_impact]),
         stress_test_matrix |-> GenerateStressTestMatrix(factor_loadings, weights)]

\* A plausible bug: the matrix is made for the shocked factors only.
SensitivityRecordMatrixOfShocked(factor_loadings, weights, shocks) ==
    LET shocked == DOMAIN shocks \cap DOMAIN factor_loadings
        results == Eager([factor_name \in shocked |->
                       LET impact == CalculateShockImpact(factor_loadings[factor_name],
                                                          shocks[factor_name], weights)
                       IN  [shock_value |-> shocks[factor_name],
                            portfolio_impact |-> impact.portfolio_impact,
                            asset_impacts |-> impact.asset_impacts]])
    IN  [individual_results |-> results,
         combined_impact |->
             SurdSum(shocked, [f \in shocked |-> results[f].portfolio_impact]),
         stress_test_matrix |->
             GenerateStressTestMatrix([f \in shocked |-> factor_loadings[f]], weights)]

\* lines 308-329: the impacts of the shocks, given the loadings
SensitivityRecord(factor_loadings, weights, shocks) ==
    LET shocked == DOMAIN shocks \cap DOMAIN factor_loadings
        results == Eager([factor_name \in shocked |->
                       LET impact == CalculateShockImpact(factor_loadings[factor_name],
                                                          shocks[factor_name], weights)
                       IN  [shock_value |-> shocks[factor_name],
                            portfolio_impact |-> impact.portfolio_impact,
                            asset_impacts |-> impact.asset_impacts]])
    IN  [individual_results |-> results,
         combined_impact |->
             SurdSum(shocked, [f \in shocked |-> results[f].portfolio_impact]),
         stress_test_matrix |-> GenerateStressTestMatrix(factor_loadings, weights)]

\* lines 297-329, the body of the try; shocks is a dict factor_name -> value
SensitivityBody(db, table, factors, holdings, shocks, query_fails) ==
    LET asset_df == GetAssetData(table, FALSE)
        factor_df == GetFactorData(factors, FALSE)
    IN  IF db = None THEN NoDb("get_asset_data")
        ELSE IF query_fails THEN HoldingsQueryFails
        ELSE IF FrameEmpty(asset_df) \/ FrameEmpty(factor_df) \/ holdings = <<>>
        THEN Raise("ValueError", <<"Insufficient data for sensitivity analysis">>)
        ELSE Apply(LAMBDA of :
                       IF IsRaise(of.factor_loadings) THEN of.factor_loadings
                       ELSE Ok(SensitivityRecord(of.factor_loadings.value, of.weights, shocks)),
                   [factor_loadings |-> CalculateFactorLoadings(asset_df, factor_df),
                    weights |-> Weights(holdings)])

\* AnalyticsEngine.run_sensitivity_analysis
RunSensitivityAnalysis(db, table, factors, holdings, shocks, query_fails) ==
    Wrap("Sensitivity analysis failed: ",
         SensitivityBody(db, table, factors, holdings, shocks, query_fails))

---------------------------------------------------------------------------
(* Monte Carlo Module *)

MAX_MONTE_CARLO_SIMULATIONS == 10000    \* Settings.MAX_MONTE_CARLO_SIMULATIONS

ReturnedPaths == 100                    \* simulations[:100]

\* The rational whose square is v, NaN if there is none.
SqrtRat(v) ==
    IF IsNaN(v) \/ v.n < 0 THEN NaN
    ELSE IF \E r \in 0..v.n : r * r = v.n /\ \E q \in 1..v.d : q * q = v.d
         THEN Rat(CHOOSE r \in 0..v.n : r * r = v.n, CHOOSE q \in 1..v.d : q * q = v.d)
         ELSE NaN

\* pandas Series.std() (ddof = 1): the variance under the root, and the root
\* itself when it is rational.
Std(series) == [sq |-> Var(series), root |-> SqrtRat(Var(series))]

\* A simulated value is a + b * s, s the irrational std_return: [a, b].  With
\* std_return rational (or NaN), b is 0 throughout.
FNaN == [a |-> NaN, b |-> NaN]

FIsNaN(x) == IsNaN(x.a) \/ IsNaN(x.b)

FNorm(x) == IF FIsNaN(x) THEN FNaN ELSE x

FRat(q) == FNorm([a |-> q, b |-> Zero])

FAdd(x, y) == FNorm([a |-> RAdd(x.a, y.a), b |-> RAdd(x.b, y.b)])

FScale(q, x) == FNorm([a |-> RMul(q, x.a), b |-> RMul(q, x.b)])

FSub(x, y) == FAdd(x, FScale(Int2Rat(-1), y))

\* (a + b s)(c + d s) with s * s = sq
FMul(x, y, sq) ==
    IF FIsNaN(x) \/ FIsNaN(y) THEN FNaN
    ELSE IF x.b.n = 0 /\ y.b.n = 0 THEN FRat(RMul(x.a, y.a))
    ELSE FNorm([a |-> RAdd(RMul(x.a, y.a), RMul(RMul(x.b, y.b), sq)),
                b |-> RAdd(RMul(x.a, y.b), RMul(x.b, y.a))])

\* The sign of a + b s (not NaN), s > 0 with s * s = sq when b # 0
FSign(x, sq) ==
    LET sa == Sign(x.a)
        sb == Sign(x.b)
        a2 == RMul(x.a, x.a)
        b2 == RMul(RMul(x.b, x.b), sq)
    IN  IF sb = 0 THEN sa
        ELSE IF sa = 0 \/ sa = sb THEN sb
        ELSE IF RGt(a2, b2) THEN sa
        ELSE IF RLt(a2, b2) THEN sb
        ELSE 0

\* Comparisons of floats: False with NaN.
FLt(x, y, sq) == ~FIsNaN(x) /\ ~FIsNaN(y) /\ FSign(FSub(x, y), sq) < 0

FLe(x, y, sq) == ~FIsNaN(x) /\ ~FIsNaN(y) /\ FSign(FSub(x, y), sq) <= 0

\* The standard normal deviate the generator yields at place g of its cycle.
StandardNormal(g) == 2 * (g % Period) - (Period - 1)

\* A plausible bug: the deviate is not scaled by std_return.
NormalUnscaled(mean_return, std_return, g) ==
    IF IsNaN(mean_return) \/ IsNaN(std_return.sq) THEN FNaN
    ELSE FRat(RAdd(mean_return, Int2Rat(StandardNormal(g))))

\* np.random.normal(mean_return, std_return) with the generator at g: NaN for
\* NaN parameters, mean_return itself for a zero std_return.
Normal(mean_return, std_return, g) ==
    IF IsNaN(mean_return) \/ IsNaN(std_return.sq) THEN FNaN
    ELSE IF ~IsNaN(std_return.root)
    THEN FRat(RAdd(mean_return, RMul(std_return.root, Int2Rat(StandardNormal(g)))))
    ELSE [a |-> mean_return, b |-> Int2Rat(StandardNormal(g))]

\* The loop of _run_single_simulation: one draw and one value per step.
RECURSIVE SimulationSteps(_, _, _, _, _)
SimulationSteps(path, mean_return, std_return, steps, g) ==
    IF steps <= 0 THEN path
    ELSE LET random_return == Normal(mean_return, std_return, g)
             new_value == FMul(path[Len(path)], FAdd(FRat(One), random_return),
                               std_return.sq)
         IN  SimulationSteps(Append(path, new_value), mean_return, std_return,
                             steps - 1, (g + 1) % Period)

\* A plausible bug: range(time_horizon - 1), a step short.
RunSingleSimulationStepShort(mean_return, std_return, time_horizon, g) ==
    SimulationSteps(<<FRat(One)>>, mean_return, std_return, time_horizon - 1, g)

\* AnalyticsEngine._run_single_simulation, the generator at g when it is called
RunSingleSimulation(mean_return, std_return, time_horizon, g) ==
    SimulationSteps(<<FRat(One)>>, mean_return, std_return, time_horizon, g)

\* The number of draws a path takes: range(time_horizon) is empty below 1.
DrawsPerPath(time_horizon) == IF time_horizon > 0 THEN time_horizon ELSE 0

\* The place of the generator when path i (from 0) starts, the first at g.
StartOf(i, time_horizon, g) == (g + i * DrawsPerPath(time_horizon)) % Period

\* How many of the paths 0..n-1 start with the generator at c.  The places
\* repeat with the period of the generator.
StartCount(c, n, time_horizon, g) ==
    (n \div Period) * Cardinality({i \in 0..(Period - 1) : StartOf(i, time_horizon, g) = c})
    + Cardinality({i \in 0..((n % Period) - 1) : StartOf(i, time_horizon, g) = c})

RECURSIVE SumInt(_, _)
SumInt(S, f) ==
    IF S = {} THEN 0
    ELSE LET x == CHOOSE y \in S : TRUE IN f[x] + SumInt(S \ {x}, f)

RECURSIVE FSum(_, _)
FSum(S, f) ==
    IF S = {} THEN FRat(Zero)
    ELSE LET x == CHOOSE y \in S : TRUE IN FAdd(f[x], FSum(S \ {x}, f))

\* final_values = [sim[-1] for sim in simulations], as the values that occur
\* and how often each does: paths that start at the same place are equal.
FinalValues(mean_return, std_return, time_horizon, num_simulations, g) ==
    LET starts == {c \in 0..(Period - 1) :
                       StartCount(c, num_simulations, time_horizon, g) > 0}
        last == Eager([c \in starts |->
                    LET path == RunSingleSimulation(mean_return, std_return, time_horizon, c)
                    IN  path[Len(path)]])
        vals == Range(last)
    IN  [vals |-> vals,
         count |-> [x \in vals |->
                       SumInt({c \in starts : last[c] = x},
                              [c \in starts |->
                                  StartCount(c, num_simulations, time_horizon, g)])],
         size |-> num_simulations,
         sq |-> std_return.sq]

\* The k-th (from 0) of the final values in increasing order.
AtRank(final, k) ==
    LET below(x) == SumInt({y \in final.vals : FLt(y, x, final.sq)}, final.count)
    IN  CHOOSE x \in final.vals : below(x) <= k /\ k < below(x) + final.count[x]

\* np.percentile(final_values, pct) of a non-empty list: NaN if a value is NaN.
PercentileOfFinal(final, pct) ==
    LET lo == (pct * (final.size - 1)) \div 100
        frac == Rat((pct * (final.size - 1)) % 100, 100)
        hi == IF lo + 1 < final.size THEN lo + 1 ELSE lo
    IN  IF \E x \in final.vals : FIsNaN(x) THEN FNaN
        ELSE FAdd(AtRank(final, lo), FScale(frac, FSub(AtRank(final, hi), AtRank(final, lo))))

\* np.mean over the final values that satisfy keep: NaN if none does.
MeanOfFinal(final, keep(_)) ==
    LET kept == {x \in final.vals : keep(x)}
        k == SumInt(kept, final.count)
    IN  IF k = 0 THEN FNaN
        ELSE FScale(Rat(1, k), FSum(kept, [x \in kept |-> FScale(Int2Rat(final.count[x]), x)]))

\* np.std (ddof = 0) of the final values: the number under the root
VarOfFinal(final) ==
    LET mean == MeanOfFinal(final, LAMBDA x : TRUE)
    IN  FScale(Rat(1, final.size),
               FSum(final.vals, [x \in final.vals |->
                   FScale(Int2Rat(final.count[x]),
                          FMul(FSub(x, mean), FSub(x, mean), final.sq))]))

\* np.min / np.max: NaN if a value is NaN
MinOfFinal(final) ==
    IF \E x \in final.vals : FIsNaN(x) THEN FNaN
    ELSE CHOOSE m \in final.vals : \A x \in final.vals : FLe(m, x, final.sq)

MaxOfFinal(final) ==
    IF \E x \in final.vals : FIsNaN(x) THEN FNaN
    ELSE CHOOSE m \in final.vals : \A x \in final.vals : FLe(x, m, final.sq)

PercentileKeys == [k \in {"5%", "25%", "50%", "75%", "95%"} |->
                      CASE k = "5%" -> 5 [] k = "25%" -> 25 [] k = "50%" -> 50
                        [] k = "75%" -> 75 [] k = "95%" -> 95]

\* lines 512-535: the statistics of the final values and the record returned,
\* num_simulations > 0.
MonteCarloRecord(simulations, final, num_simulations) ==
    [simulations |-> simulations,
     percentiles |->
        [k \in DOMAIN PercentileKeys |-> PercentileOfFinal(final, PercentileKeys[k])],
     final_values |->
        [mean |-> MeanOfFinal(final, LAMBDA x : TRUE),
         std |-> [sqrt_of |-> VarOfFinal(final)],
         min |-> MinOfFinal(final),
         max |-> MaxOfFinal(final)],
     probability_of_loss |->
        Rat(SumInt({x \in final.vals : FLt(x, FRat(One), final.sq)}, final.count),
            num_simulations),
     expected_shortfall |->
        Apply(LAMBDA p5 : MeanOfFinal(final, LAMBDA x : FLe(x, p5, final.sq)),
              PercentileOfFinal(final, 5))]

\* A plausible bug: the list of paths is cut to the first 100 before the
\* statistics are taken.
SimulateCutFirst(mean_return, std_return, time_horizon, num_simulations, g, empty_raises) ==
    LET runs == IF num_simulations > 0 THEN num_simulations ELSE 0
        cut == IF runs < ReturnedPaths THEN runs ELSE ReturnedPaths
        simulations ==
            [i \in 1..cut |->
                RunSingleSimulation(mean_return, std_return, time_horizon,
                                    StartOf(i - 1, time_horizon, g))]
    IN  [result |->
            IF runs = 0
            THEN IF empty_raises
                 THEN Raise("IndexError", <<"index -1 is out of bounds for axis 0 with size 0">>)
                 ELSE Raise("ZeroDivisionError", <<"division by zero">>)
            ELSE Ok(Apply(LAMBDA final : MonteCarloRecord(simulations, final, num_simulations),
                          FinalValues(mean_return, std_return, time_horizon, cut, g))),
         effects |-> [NoEffects EXCEPT !.simulations = runs,
                                       !.draws = runs * DrawsPerPath(time_horizon)],
         np_random |-> (g + runs * DrawsPerPath(time_horizon)) % Period]

\* lines 505-535: the simulations run from the statistics of the historical
\* returns, and the record or the error of an empty list of final values.
\* np.percentile of an empty list returns NaN or raises IndexError, by numpy
\* version: empty_raises.
Simulate(mean_return, std_return, time_horizon, num_simulations, g, empty_raises) ==
    LET runs == IF num_simulations > 0 THEN num_simulations ELSE 0
        simulations ==
            [i \in 1..(IF runs < ReturnedPaths THEN runs ELSE ReturnedPaths) |->
                RunSingleSimulation(mean_return, std_return, time_horizon,
                                    StartOf(i - 1, time_horizon, g))]
    IN  [result |->
            IF runs = 0
            THEN IF empty_raises
                 THEN Raise("IndexError", <<"index -1 is out of bounds for axis 0 with size 0">>)
                 ELSE Raise("ZeroDivisionError", <<"division by zero">>)
            ELSE Ok(Apply(LAMBDA final : MonteCarloRecord(simulations, final, num_simulations),
                          FinalValues(mean_return, std_return, time_horizon, runs, g))),
         effects |-> [NoEffects EXCEPT !.simulations = runs,
                                       !.draws = runs * DrawsPerPath(time_horizon)],
         np_random |-> (g + runs * DrawsPerPath(time_horizon)) % Period]

\* A plausible bug: the holdings are not tested for being empty.
MonteCarloBodyAnyHoldings(db, table, holdings, time_horizon, num_simulations, g, query_fails, empty_raises) ==
    LET asset_df == GetAssetData(table, FALSE)
        stop(e) == [result |-> e, effects |-> NoEffects, np_random |-> g]
    IN  IF db = None THEN stop(NoDb("get_asset_data"))
        ELSE IF query_fails THEN stop(HoldingsQueryFails)
        ELSE IF FrameEmpty(asset_df)
        THEN stop(Raise("ValueError", <<"Insufficient data for Monte Carlo simulation">>))
        ELSE Apply(LAMBDA portfolio_returns :
                       Apply(LAMBDA stats :
                                 Simulate(stats.mean, stats.std, time_horizon,
                                          num_simulations, g, empty_raises),
                             [mean |-> Mean(portfolio_returns), std |-> Std(portfolio_returns)]),
                   CalculatePortfolioReturns(asset_df, holdings).value)

\* lines 488-535, the body of the try: the outcome, what the call did, and
\* the generator after it.
MonteCarloBody(db, table, holdings, time_horizon, num_simulations, g, query_fails, empty_raises) ==
    LET asset_df == GetAssetData(table, FALSE)
        stop(e) == [result |-> e, effects |-> NoEffects, np_random |-> g]
    IN  IF db = None THEN stop(NoDb("get_asset_data"))
        ELSE IF query_fails THEN stop(HoldingsQueryFails)
        ELSE IF FrameEmpty(asset_df) \/ holdings = <<>>
        THEN stop(Raise("ValueError", <<"Insufficient data for Monte Carlo simulation">>))
        ELSE Apply(LAMBDA portfolio_returns :
                       Apply(LAMBDA stats :
                                 Simulate(stats.mean, stats.std, time_horizon,
                                          num_simulations, g, empty_raises),
                             [mean |-> Mean(portfolio_returns), std |-> Std(portfolio_returns)]),
                   CalculatePortfolioReturns(asset_df, holdings).value)

\* AnalyticsEngine.run_monte_carlo_simulation
RunMonteCarloSimulation(db, table, holdings, time_horizon, num_simulations, g, query_fails, empty_raises) ==
    LET run == MonteCarloBody(db, table, holdings, time_horizon, num_simulations, g,
                              query_fails, empty_raises)
    IN  [run EXCEPT !.result = Wrap("Monte Carlo simulation failed: ", run.result)]

---------------------------------------------------------------------------
(* The states the engine is called in *)

\* A table without rows.
NoTable == [rows |-> 0, px |-> <<>>]

PriceTables ==
    {NoTable} \cup
    UNION {UNION {{[rows |-> k, px |-> f] : f \in [cols -> [1..k -> PriceLevels]]} :
                    cols \in {{"A"}, {"A", "B"}}} : k \in 1..MaxRows}

HoldingRows == {[asset_name |-> "A", weight_percent |-> 60],
                [asset_name |-> "A", weight_percent |-> 100],
                [asset_name |-> "B", weight_percent |-> 40],
                [asset_name |-> "X", weight_percent |-> 40]}

\* The holdings of a portfolio: rows of the table holding_data, no row twice.
HoldingTables ==
    UNION {{h \in [1..k -> HoldingRows] : \A i, j \in 1..k : h[i] = h[j] => i = j} :
              k \in 0..MaxHoldings}

BenchmarkNames == {None, "NIFTY"}

\* CURRENT_SESSION as the module is imported, and after a reset.
NoSession == [session_id |-> NoRecord, files |-> <<>>, analysis_results |-> <<>>]

\* The API modules as the process starts: no run, no session, no task.
InitApi ==
    /\ analysis_runs = <<>>
    /\ result_rows = {}
    /\ tasks = <<>>
    /\ db_faults = 0
    /\ CURRENT_SESSION = NoSession
    /\ file_tasks = <<>>
    /\ temp_files = <<>>
    /\ uuids = 0

InitCall ==
    /\ calls = <<>>
    /\ accessed = {}
    /\ op = "none"
    /\ args = <<>>
    /\ result = Ok(None)
    /\ effects = NoEffects

---------------------------------------------------------------------------
(* Specification of the Return Engine and the Performance Module *)

InitReturns ==
    /\ asset_data \in PriceTables
    /\ holding_data \in HoldingTables
    /\ factor_data = NoTable
    /\ benchmark_data = NoTable
    /\ InitApi
    /\ engine_db \in {None, "SupabaseDatabase"}
    /\ np_random = 0
    /\ InitCall

\* The caller is sequential: it calls when idle, and takes the outcome before
\* it calls again.
Idle == op = "none"

TakeOutcome ==
    /\ ~Idle
    /\ op' = "none"
    /\ args' = <<>>
    /\ result' = Ok(None)
    /\ effects' = NoEffects
    /\ UNCHANGED <<Stored, np_random, calls, accessed>>

\* A direct call of _calculate_portfolio_returns on the stored tables.
CallPortfolioReturns ==
    /\ Idle
    /\ op' = "_calculate_portfolio_returns"
    /\ args' = <<>>
    /\ result' = CalculatePortfolioReturns(GetAssetData(asset_data, FALSE), holding_data)
    /\ effects' = NoEffects
    /\ UNCHANGED <<Stored, np_random, calls, accessed>>

CallHistoricalPerformance ==
    \E benchmark_name \in BenchmarkNames, query_fails \in BOOLEAN, empty_raises \in BOOLEAN :
        /\ Idle
        /\ op' = "calculate_historical_performance"
        /\ args' = [benchmark_name |-> benchmark_name]
        /\ result' = CalculateHistoricalPerformance(engine_db, asset_data, holding_data,
                                                    benchmark_name, query_fails, empty_raises)
        /\ effects' = NoEffects
        /\ UNCHANGED <<Stored, np_random, calls, accessed>>

NextReturns == CallPortfolioReturns \/ CallHistoricalPerformance \/ TakeOutcome

SpecReturns == InitReturns /\ [][NextReturns]_vars

---------------------------------------------------------------------------
(* Specification of the Optimization Module *)

InitOpt ==
    /\ asset_data \in PriceTables
    /\ holding_data = <<>>
    /\ factor_data = NoTable
    /\ benchmark_data = NoTable
    /\ InitApi
    /\ engine_db \in {None, "SupabaseDatabase"}
    /\ np_random = 0
    /\ InitCall

FailSets == {F \in SUBSET FailLevels : Cardinality(F) <= MaxFail}

Failure == [success |-> FALSE, x |-> <<>>, fun |-> NaN]

\* The point the solver returns matters where the constraints leave a choice.
Picks(mu) == IF Determined(mu, Zero) # {} THEN {<<>>} ELSE Lattice(Len(mu), WeightSteps, WeightSteps)

\* What the solver may do on the frontier problems of one table: as a function
\* of the target level (the solver is deterministic, so that equal problems
\* have equal results), it succeeds wherever a feasible point exists, but for
\* the levels of one of the FailSets.
FrontierSolvers(mu, cov) ==
    LET levels == Linspace(MinOfSeq(mu), MaxOfSeq(mu), NPoints)
        L == Range(levels)
    IN  UNION {LET best == Eager([t \in L |->
                              Minimize(FrontierProblem(mu, cov, t), WeightSteps,
                                       [ok |-> TRUE, pick |-> p])])
               IN  {[t \in L |-> IF t \in {levels[j] : j \in F} THEN Failure ELSE best[t]] :
                        F \in FailSets} : p \in Picks(mu)}

\* What the solver may do on the main problem.
SolverBehaviours(n) ==
    {[ok |-> FALSE, pick |-> <<>>]} \cup
    {[ok |-> TRUE, pick |-> p] : p \in Lattice(n, WeightSteps, WeightSteps)}

\* The target returns asked for: none, 0, and the expected return of the
\* first asset (which a long-only portfolio can reach).
TargetReturns(mu) == {NoNumber, Zero} \cup {mu[i] : i \in DOMAIN mu \cap {1}}

RiskAversions == {NoNumber, Zero, Int2Rat(2)}

\* The calls of run_markowitz_optimization that can be made on the stored
\* table, each with its arguments and what the call does.
MarkowitzCalls(db, table) ==
    LET data == MarkowitzData(db, table)
        mu == IF IsOk(data.fetch) THEN data.expected_returns ELSE <<>>
        cov == IF IsOk(data.fetch) THEN data.cov_matrix ELSE <<>>
        frontiers == {GenerateEfficientFrontier(mu, cov, NPoints, minimize) :
                          minimize \in FrontierSolvers(mu, cov)}
    IN  {[args |-> [target_return |-> target_return, risk_aversion |-> risk_aversion],
          run |-> RunMarkowitzOptimization(data, target_return, risk_aversion,
                                           WeightSteps, solver, frontier)] :
            frontier \in frontiers,
            target_return \in TargetReturns(mu), risk_aversion \in RiskAversions,
            solver \in SolverBehaviours(Len(mu))}

CallRunMarkowitzOptimization ==
    /\ Idle
    /\ \E call \in MarkowitzCalls(engine_db, asset_data) :
           /\ op' = "run_markowitz_optimization"
           /\ args' = call.args
           /\ result' = call.run.result
           /\ effects' = call.run.effects
    /\ UNCHANGED <<Stored, np_random, calls, accessed>>

NextOpt == CallRunMarkowitzOptimization \/ TakeOutcome

SpecOpt == InitOpt /\ [][NextOpt]_vars

---------------------------------------------------------------------------
(* Specification of the Monte Carlo Module *)

InitMonteCarlo ==
    /\ asset_data \in {t \in PriceTables : DOMAIN t.px \subseteq {"A"}}
    /\ holding_data \in {h \in HoldingTables : Len(h) <= 1}
    /\ factor_data = NoTable
    /\ benchmark_data = NoTable
    /\ InitApi
    /\ engine_db \in {None, "SupabaseDatabase"}
    /\ np_random \in 0..(Period - 1)
    /\ InitCall

\* The requests made: no step, one and two; no path, a few, one more than are
\* returned, and more than the configured maximum.
TimeHorizons == {0, 1, 2}

NumSimulations == {0, 1, 2, 3, ReturnedPaths + 1, MAX_MONTE_CARLO_SIMULATIONS + 2}

\* One more path than is returned is asked for with at most one step: the
\* exact numbers of its statistics stay within the integers of TLC.
MonteCarloRequests ==
    {r \in [time_horizon : TimeHorizons, num_simulations : NumSimulations] :
         r.num_simulations = ReturnedPaths + 1 => r.time_horizon <= 1}

MonteCarloCalls(db, table, holdings, g) ==
    {[args |-> r,
      run |-> RunMonteCarloSimulation(db, table, holdings, r.time_horizon,
                                      r.num_simulations, g, query_fails, empty_raises)] :
        r \in MonteCarloRequests, query_fails \in BOOLEAN, empty_raises \in BOOLEAN}

CallRunMonteCarloSimulation ==
    /\ Idle
    /\ \E call \in MonteCarloCalls(engine_db, asset_data, holding_data, np_random) :
           /\ op' = "run_monte_carlo_simulation"
           /\ args' = call.args
           /\ result' = call.run.result
           /\ effects' = call.run.effects
           /\ np_random' = call.run.np_random
    /\ UNCHANGED <<Stored, calls, accessed>>

NextMonteCarlo == CallRunMonteCarloSimulation \/ TakeOutcome

SpecMonteCarlo == InitMonteCarlo /\ [][NextMonteCarlo]_vars

---------------------------------------------------------------------------
(* Specification of the engine: every entry point, on a few stored portfolios *)

\* The price table of two assets A = 2, 1, 2, ... and B = 1, 2, 2, 1, ...
TwoAssets ==
    [rows |-> MaxRows,
     px |-> [c \in {"A", "B"} |-> [k \in 1..MaxRows |->
                IF c = "A" THEN 1 + (k % 2) ELSE 1 + ((k \div 2) % 2)]]]

\* The factor table of one factor, F = 2, 2, 1, 1, ..., and one whose factor
\* bears the name of an asset.
OneFactor(name) ==
    [rows |-> MaxRows,
     px |-> [c \in {name} |-> [k \in 1..MaxRows |-> 1 + (((k + 1) \div 2) % 2)]]]

\* The factor table of two factors: F as above, and G = 2, 1, 2, 1, ..., which
\* moves as asset A does.
TwoFactors ==
    [rows |-> MaxRows,
     px |-> [c \in {"F", "G"} |-> [k \in 1..MaxRows |->
                IF c = "F" THEN 1 + (((k + 1) \div 2) % 2) ELSE 1 + (k % 2)]]]

InitEngine ==
    /\ asset_data \in {NoTable, TwoAssets}
    /\ holding_data \in {h \in HoldingTables :
                            h \in {<<>>, <<[asset_name |-> "A", weight_percent |-> 60],
                                           [asset_name |-> "B", weight_percent |-> 40]>>}}
    /\ factor_data \in {NoTable, OneFactor("F"), OneFactor("A"), TwoFactors}
    /\ benchmark_data = NoTable
    /\ InitApi
    /\ engine_db \in {None, "SupabaseDatabase"}
    /\ np_random \in 0..(Period - 1)
    /\ InitCall

CallGenerateRiskDiagnostics ==
    \E query_fails \in BOOLEAN :
        /\ Idle
        /\ op' = "generate_risk_diagnostics"
        /\ args' = <<>>
        /\ result' = GenerateRiskDiagnostics(engine_db, asset_data, holding_data, query_fails)
        /\ effects' = NoEffects
        /\ UNCHANGED <<Stored, np_random, calls, accessed>>

\* The shocks asked for: none, one on the stored factor, one on another.
Shocks == {NoTerms, [f \in {"F"} |-> Rat(1, 100)], [f \in {"G"} |-> Rat(-1, 100)],
           [f \in {"F", "G"} |-> IF f = "F" THEN Rat(1, 100) ELSE Rat(-2, 100)],
           [f \in {"F", "H"} |-> IF f = "F" THEN Rat(2, 100) ELSE Rat(1, 100)]}

CallRunSensitivityAnalysis ==
    \E shocks \in Shocks, query_fails \in BOOLEAN :
        /\ Idle
        /\ op' = "run_sensitivity_analysis"
        /\ args' = [shocks |-> shocks]
        /\ result' = RunSensitivityAnalysis(engine_db, asset_data, factor_data, holding_data,
                                            shocks, query_fails)
        /\ effects' = NoEffects
        /\ UNCHANGED <<Stored, np_random, calls, accessed>>

NextEngine ==
    \/ CallHistoricalPerformance
    \/ CallGenerateRiskDiagnostics
    \/ CallRunSensitivityAnalysis
    \/ CallRunMarkowitzOptimization
    \/ CallRunMonteCarloSimulation
    \/ TakeOutcome

SpecEngine == InitEngine /\ [][NextEngine]_vars

---------------------------------------------------------------------------
(* Specification of _calculate_shock_impact, called on the weights of the   *)
(* stored holdings with loadings and a shock of the caller's choice.        *)

InitShock ==
    /\ asset_data = NoTable
    /\ holding_data \in HoldingTables
    /\ factor_data = NoTable
    /\ benchmark_data = NoTable
    /\ InitApi
    /\ engine_db = "SupabaseDatabase"
    /\ np_random = 0
    /\ InitCall

\* The loadings of one factor: correlations, or 0 in the place of NaN.
LoadingValues == {SurdZero, Surd(One, One), Surd(Int2Rat(-1), One), Surd(One, Rat(1, 4)),
                  Surd(One, Rat(1, 2))}

LoadingMaps == UNION {[assets -> LoadingValues] : assets \in SUBSET {"A", "B"}}

ShockValues == {Rat(2, 100), Rat(-1, 100), Zero}

CallCalculateShockImpact ==
    /\ Idle
    /\ \E loadings \in LoadingMaps, shock \in ShockValues :
           /\ op' = "_calculate_shock_impact"
           /\ args' = [loadings |-> loadings, shock |-> shock]
           /\ result' = Ok(CalculateShockImpact(loadings, shock, Weights(holding_data)))
           /\ effects' = NoEffects
    /\ UNCHANGED <<Stored, np_random, calls, accessed>>

NextShock == CallCalculateShockImpact \/ TakeOutcome

SpecShock == InitShock /\ [][NextShock]_vars

---------------------------------------------------------------------------
(* Specification of _compare_with_benchmark, called on two return series of *)
(* the caller's choice: each has a return on some of the dates, and neither *)
(* holds NaN, as pct_change().dropna() leaves them.                         *)

InitBenchmark ==
    /\ asset_data = NoTable
    /\ holding_data = <<>>
    /\ factor_data = NoTable
    /\ benchmark_data = NoTable
    /\ InitApi
    /\ engine_db = "SupabaseDatabase"
    /\ np_random = 0
    /\ InitCall

ReturnDates == 1..MaxRows

\* The returns between prices of PriceLevels.
ReturnLevels == {Rat(-1, 2), Zero, One}

PortfolioSeries == UNION {[dates -> ReturnLevels] : dates \in SUBSET ReturnDates}

BenchmarkSeries == UNION {[dates -> ReturnLevels \ {Zero}] : dates \in SUBSET ReturnDates}

CallCompareWithBenchmark ==
    /\ Idle
    /\ \E portfolio_returns \in PortfolioSeries, benchmark_returns \in BenchmarkSeries :
           /\ op' = "_compare_with_benchmark"
           /\ args' = [portfolio_returns |-> portfolio_returns,
                       benchmark_returns |-> benchmark_returns]
           /\ result' = Ok(CompareWithBenchmark(portfolio_returns, benchmark_returns))
           /\ effects' = NoEffects
    /\ UNCHANGED <<Stored, np_random, calls, accessed>>

NextBenchmark == CallCompareWithBenchmark \/ TakeOutcome

SpecBenchmark == InitBenchmark /\ [][NextBenchmark]_vars

---------------------------------------------------------------------------
(* Specification of _calculate_rolling_metrics, called on a return series   *)
(* and a window of the caller's choice.                                     *)

Windows == 1..MaxRows

CallRollingMetrics ==
    /\ Idle
    /\ \E returns \in PortfolioSeries, window \in Windows :
           /\ op' = "_calculate_rolling_metrics"
           /\ args' = [returns |-> returns, window |-> window]
           /\ result' = Ok(CalculateRollingMetrics(returns, window))
           /\ effects' = NoEffects
    /\ UNCHANGED <<Stored, np_random, calls, accessed>>

NextRolling == CallRollingMetrics \/ TakeOutcome

SpecRolling == InitBenchmark /\ [][NextRolling]_vars

---------------------------------------------------------------------------
(* Specification of the Risk Module: generate_risk_diagnostics on every     *)
(* stored price table and holdings.                                         *)

InitRisk ==
    /\ asset_data \in PriceTables
    /\ holding_data \in HoldingTables
    /\ factor_data = NoTable
    /\ benchmark_data = NoTable
    /\ InitApi
    /\ engine_db = "SupabaseDatabase"
    /\ np_random = 0
    /\ InitCall

NextRisk == CallGenerateRiskDiagnostics \/ TakeOutcome

SpecRisk == InitRisk /\ [][NextRisk]_vars

---------------------------------------------------------------------------
(* Specification of the end-to-end scenario: the prices of assets A and B   *)
(* over 4 dates, or over some of them, and the holdings.  Prices are stored *)
(* in hundredths, returns being ratios of prices.  The scenario's variance  *)
(* needs integers beyond 32 bits; of the metrics its total return is        *)
(* computed.                                                                *)

ScenarioPrices ==
    [c \in {"A", "B"} |-> IF c = "A" THEN <<10000, 10100, 10200, 10000>>
                                     ELSE <<5000, 5000, 5100, 5151>>]

\* The dated rows of a table, some of the 4 dates in order.
ScenarioDates == {SortedDates(D) : D \in SUBSET (1..4) \ {{}}}

ScenarioTables ==
    {[rows |-> Len(dates), px |-> [c \in cols |-> [i \in DOMAIN dates |->
                                      ScenarioPrices[c][dates[i]]]]] :
        dates \in ScenarioDates, cols \in {{"A"}, {"B"}, {"A", "B"}}}

InitScenario ==
    /\ asset_data \in ScenarioTables
    /\ holding_data \in HoldingTables
    /\ factor_data = NoTable
    /\ benchmark_data = NoTable
    /\ InitApi
    /\ engine_db = "SupabaseDatabase"
    /\ np_random = 0
    /\ InitCall

\* total_return of _calculate_performance_metrics on the portfolio returns of
\* the stored tables.
CallTotalReturn ==
    /\ Idle
    /\ op' = "total_return"
    /\ args' = <<>>
    /\ result' = Ok(TotalReturn(CalculatePortfolioReturns(GetAssetData(asset_data, FALSE),
                                                          holding_data).value))
    /\ effects' = NoEffects
    /\ UNCHANGED <<Stored, np_random, calls, accessed>>

NextScenario == CallPortfolioReturns \/ CallTotalReturn \/ TakeOutcome

SpecScenario == InitScenario /\ [][NextScenario]_vars

---------------------------------------------------------------------------
(* Specification of _run_single_simulation, called with a mean, a standard  *)
(* deviation and a horizon of the caller's choice; time_horizon is an int   *)
(* that nothing validates.                                                  *)

InitPath ==
    /\ asset_data = NoTable
    /\ holding_data = <<>>
    /\ factor_data = NoTable
    /\ benchmark_data = NoTable
    /\ InitApi
    /\ engine_db = "SupabaseDatabase"
    /\ np_random \in 0..(Period - 1)
    /\ InitCall

PathMeans == {Zero, Rat(1, 10), Rat(-1, 2), NaN}

\* Standard deviations: 0, the rational 1/2, the root of 1/2, NaN.
PathStds == {[sq |-> Zero, root |-> Zero], [sq |-> Rat(1, 4), root |-> Rat(1, 2)],
             [sq |-> Rat(1, 2), root |-> NaN], [sq |-> NaN, root |-> NaN]}

PathHorizons == (-1)..3

CallRunSingleSimulation ==
    /\ Idle
    /\ \E mean_return \in PathMeans, std_return \in PathStds, time_horizon \in PathHorizons :
           /\ op' = "_run_single_simulation"
           /\ args' = [mean_return |-> mean_return, std_return |-> std_return,
                       time_horizon |-> time_horizon]
           /\ result' = Ok(RunSingleSimulation(mean_return, std_return, time_horizon,
                                               np_random))
           /\ effects' = [NoEffects EXCEPT !.draws = DrawsPerPath(time_horizon)]
           /\ np_random' = (np_random + DrawsPerPath(time_horizon)) % Period
    /\ UNCHANGED <<Stored, calls, accessed>>

NextPath == CallRunSingleSimulation \/ TakeOutcome

SpecPath == InitPath /\ [][NextPath]_vars

---------------------------------------------------------------------------
(* Specification of calculate_historical_performance on a portfolio with    *)
(* stored benchmark levels: the rows store_benchmark_data has written, dated *)
(* as the prices are.                                                       *)

\* The levels of benchmark NIFTY on the dates 1..k.
BenchmarkTables ==
    {NoTable} \cup
    UNION {{[rows |-> k, px |-> [b \in {"NIFTY"} |-> levels]] :
              levels \in [1..k -> PriceLevels]} : k \in 1..MaxRows}

InitBenchmarked ==
    /\ asset_data \in {t \in PriceTables : DOMAIN t.px \subseteq {"A"}}
    /\ holding_data \in {h \in HoldingTables : Len(h) <= 1}
    /\ factor_data = NoTable
    /\ benchmark_data \in BenchmarkTables
    /\ InitApi
    /\ engine_db = "SupabaseDatabase"
    /\ np_random = 0
    /\ InitCall

NextBenchmarked == CallHistoricalPerformance \/ TakeOutcome

SpecBenchmarked == InitBenchmarked /\ [][NextBenchmarked]_vars

---------------------------------------------------------------------------
(* Specification of concurrent calls.  Two calls of entry points of the     *)
(* one engine of line 552 run in one process, their steps interleaved.  What *)
(* a call computes from its own tables is what the sequential               *)
(* specifications compute; here a call is followed through its accesses to   *)
(* the objects of the process (the attributes of the engine, the module      *)
(* global db, the generator of np.random) and through the values that        *)
(* depend on them, the paths it draws.                                       *)

Callers == 1..2

\* The requests of the concurrent calls: every path takes a draw.
ConcurrentHorizons == {1, 2}

ConcurrentSimulations == {1, 2}

NoCall ==
    [entry |-> "none", pc |-> "idle", time_horizon |-> 0, num_simulations |-> 0,
     stats |-> None, path |-> <<>>, final_values |-> <<>>]

\* lines 19-20, 90, 108, 149, 421, 435: the attributes of the engine an entry
\* point reads; __init__ alone assigns them.
AttributesRead(entry) ==
    CASE entry = "calculate_historical_performance" -> {"self.risk_free_rate",
                                                        "self.confidence_level"}
      [] entry = "run_markowitz_optimization" -> {"self.risk_free_rate"}
      [] OTHER -> {}

Access(c, objects, mode) == {[call |-> c, object |-> o, mode |-> mode] : o \in objects}

InitConc ==
    /\ asset_data \in {t \in PriceTables : DOMAIN t.px = {"A"} /\ t.rows >= 2}
    /\ holding_data = <<[asset_name |-> "A", weight_percent |-> 100]>>
    /\ factor_data = OneFactor("F")
    /\ benchmark_data = NoTable
    /\ InitApi
    /\ engine_db = "SupabaseDatabase"
    /\ np_random \in 0..(Period - 1)
    /\ calls = [c \in Callers |-> NoCall]
    /\ accessed = {}
    /\ op = "none"
    /\ args = <<>>
    /\ result = Ok(None)
    /\ effects = NoEffects

\* A caller enters an entry point.
Begin(c) ==
    /\ calls[c].pc = "idle"
    /\ \E entry \in {"calculate_historical_performance", "generate_risk_diagnostics",
                     "run_sensitivity_analysis", "run_markowitz_optimization",
                     "run_monte_carlo_simulation"},
          time_horizon \in ConcurrentHorizons, num_simulations \in ConcurrentSimulations :
           /\ entry # "run_monte_carlo_simulation" =>
                  time_horizon = 1 /\ num_simulations = 1
           /\ calls' = [calls EXCEPT ![c] =
                  [NoCall EXCEPT !.entry = entry, !.pc = "fetch",
                                 !.time_horizon = time_horizon,
                                 !.num_simulations = num_simulations]]
    /\ UNCHANGED <<Stored, np_random, op, args, result, effects, accessed>>

\* lines 27-32, 187-188, 298-300, 387, 489-490: the awaited reads of the
\* tables, through the module global db.
Fetch(c) ==
    /\ calls[c].pc = "fetch"
    /\ calls' = [calls EXCEPT ![c].pc = "compute"]
    /\ accessed' = accessed \cup Access(c, {"db"}, "read")
    /\ UNCHANGED <<Stored, np_random, op, args, result, effects>>

\* The computation up to the first draw (lines 495-503 of the simulation), or
\* up to the return of the entry points that draw nothing.
Compute(c) ==
    /\ calls[c].pc = "compute"
    /\ accessed' = accessed \cup Access(c, AttributesRead(calls[c].entry), "read")
    /\ calls' =
           [calls EXCEPT ![c] =
               IF calls[c].entry = "run_monte_carlo_simulation"
               THEN Apply(LAMBDA portfolio_returns :
                              [calls[c] EXCEPT !.pc = "draw",
                                        !.stats = [mean |-> Mean(portfolio_returns),
                                                   std |-> Std(portfolio_returns)],
                                        !.path = <<FRat(One)>>],
                          CalculatePortfolioReturns(GetAssetData(asset_data, FALSE),
                                                    holding_data).value)
               ELSE [@ EXCEPT !.pc = "return"]]
    /\ UNCHANGED <<Stored, np_random, op, args, result, effects>>

\* lines 544-547: one turn of the loop of _run_single_simulation.  The draw
\* reads the state of the one generator of np.random and advances it; with
\* the last step of a path the loop of lines 507-509 keeps the path.
Draw(c) ==
    /\ calls[c].pc = "draw"
    /\ np_random' = (np_random + 1) % Period
    /\ accessed' = accessed \cup Access(c, {"np.random"}, "read")
                            \cup Access(c, {"np.random"}, "write")
    /\ \E call \in {calls[c]} :
         \E path \in {SimulationSteps(call.path, call.stats.mean, call.stats.std, 1,
                                      np_random)} :
           LET whole == Len(path) = call.time_horizon + 1
               final_values == IF whole THEN Append(call.final_values, path[Len(path)])
                               ELSE call.final_values
           IN  calls' = [calls EXCEPT ![c] =
                   [call EXCEPT !.path = IF whole THEN <<FRat(One)>> ELSE path,
                                !.final_values = final_values,
                                !.pc = IF Len(final_values) = call.num_simulations
                                       THEN "return" ELSE "draw"]]
    /\ UNCHANGED <<Stored, op, args, result, effects>>

\* The call returns to its caller.
Return(c) ==
    /\ calls[c].pc = "return"
    /\ calls' = [calls EXCEPT ![c].pc = "done"]
    /\ UNCHANGED <<Stored, np_random, op, args, result, effects, accessed>>

NextConc == \E c \in Callers : Begin(c) \/ Fetch(c) \/ Compute(c) \/ Draw(c) \/ Return(c)

SpecConc == InitConc /\ [][NextConc]_vars

---------------------------------------------------------------------------
(* Specification of the analysis API (api/v1/analysis.py).  An endpoint     *)
(* creates a row of analysis_runs; the engine is then called by a background *)
(* task (performance, risk, sensitivity, optimize) or by the endpoint itself *)
(* (monte-carlo).  Every awaited call is a step, so that the steps of two    *)
(* runs interleave.  A database operation may fail; database.py decides what *)
(* its caller sees of the failure.                                           *)

\* How many runs are followed, and how many database operations fail.
MaxRuns == 1

MaxDbFaults == 1

RunEndpoints == {"performance", "risk", "sensitivity", "optimize", "monte-carlo"}

\* run_type of the row each endpoint creates (lines 97, 127, 153, 183, 211)
RunType(endpoint) ==
    CASE endpoint = "performance" -> "performance"
      [] endpoint = "risk" -> "risk"
      [] endpoint = "sensitivity" -> "sensitivity"
      [] endpoint = "optimize" -> "optimizer"
      [] endpoint = "monte-carlo" -> "optimizer"

\* result_type and key of the row each endpoint stores
ResultType(endpoint) ==
    CASE endpoint = "performance" -> "performance"
      [] endpoint = "risk" -> "risk"
      [] endpoint = "sensitivity" -> "sensitivity"
      [] endpoint = "optimize" -> "optimization"
      [] endpoint = "monte-carlo" -> "monte_carlo"

ResultKey(endpoint) ==
    CASE endpoint = "performance" -> "metrics"
      [] endpoint = "risk" -> "diagnostics"
      [] endpoint = "sensitivity" -> "results"
      [] endpoint = "optimize" -> "markowitz"
      [] endpoint = "monte-carlo" -> "simulation"

\* progress written before and after the engine call of a background task
ProgressSteps(endpoint) ==
    CASE endpoint = "performance" -> <<10, 50>>
      [] endpoint = "risk" -> <<10, 70>>
      [] endpoint = "sensitivity" -> <<20, 80>>
      [] endpoint = "optimize" -> <<15, 85>>

\* create_analysis_run: the row inserted; the id is the one the table gives.
CreateAnalysisRun(runs, run_type) ==
    LET id == Cardinality(DOMAIN runs) + 1
    IN  [r \in DOMAIN runs \cup {id} |->
            IF r = id
            THEN [run_type |-> run_type, status |-> "queued", progress |-> Zero,
                  error_message |-> <<>>, completed |-> FALSE]
            ELSE runs[r]]

\* update_analysis_run: the row after the call.  A failing update changes
\* nothing and returns False, which no caller reads.  error_message is str(e),
\* in parts; None and "" are <<>>.
UpdateAnalysisRun(runs, run_id, status, progress, error_message, fails) ==
    IF fails \/ run_id \notin DOMAIN runs THEN runs
    ELSE [runs EXCEPT ![run_id] =
            [@ EXCEPT !.status = status,
                      !.progress = IF progress # NoNumber THEN progress ELSE @,
                      !.error_message = IF error_message # <<>> THEN error_message ELSE @,
                      !.completed = IF status = "succeeded" THEN TRUE ELSE @]]

\* get_analysis_run: the row, or None
GetAnalysisRun(runs, run_id, fails) ==
    IF fails \/ run_id \notin DOMAIN runs THEN NoRecord ELSE runs[run_id]

\* store_result: the table after the call.  A failing insert stores nothing
\* and returns False.
StoreResult(rows, analysis_run_id, result_type, key, fails) ==
    IF fails THEN rows
    ELSE rows \cup {[analysis_run_id |-> analysis_run_id, result_type |-> result_type,
                     key |-> key]}

\* get_results: the rows of the run, of one type if a type is given; [] if
\* the query fails.
GetResults(rows, analysis_run_id, result_type, fails) ==
    IF fails THEN {}
    ELSE {row \in rows : /\ row.analysis_run_id = analysis_run_id
                         /\ TruthyStr(result_type) => row.result_type = result_type}

\* get_analysis_results (the endpoint): the response.
GetAnalysisResults(runs, rows, run_id, result_type, run_fails, results_fail) ==
    LET run == GetAnalysisRun(runs, run_id, run_fails)
    IN  IF run = NoRecord
        THEN Raise("HTTPException", <<"404", "Analysis run not found">>)
        ELSE IF run.status # "succeeded"
        THEN Raise("HTTPException", <<"400", "Analysis not completed successfully">>)
        ELSE Ok([run_id |-> run_id, run_type |-> run.run_type,
                 results |-> GetResults(rows, run_id, result_type, results_fail)])

\* What the engine call of an endpoint may return or raise on the stored
\* tables, over the arguments of the request and the behaviours of the
\* database client, with the state of np.random it leaves.
EngineResults(endpoint) ==
    CASE endpoint = "performance" ->
            {[result |-> CalculateHistoricalPerformance(engine_db, asset_data, holding_data,
                                                        benchmark_name, query_fails,
                                                        empty_raises),
              np_random |-> np_random] :
                benchmark_name \in BenchmarkNames, query_fails \in BOOLEAN,
                empty_raises \in BOOLEAN}
      [] endpoint = "risk" ->
            {[result |-> GenerateRiskDiagnostics(engine_db, asset_data, holding_data,
                                                 query_fails),
              np_random |-> np_random] : query_fails \in BOOLEAN}
      [] endpoint = "sensitivity" ->
            {[result |-> RunSensitivityAnalysis(engine_db, asset_data, factor_data,
                                                holding_data, shocks, query_fails),
              np_random |-> np_random] : shocks \in Shocks, query_fails \in BOOLEAN}
      [] endpoint = "optimize" ->
            {[result |-> call.run.result, np_random |-> np_random] :
                call \in MarkowitzCalls(engine_db, asset_data)}
      [] endpoint = "monte-carlo" ->
            {[result |-> call.run.result, np_random |-> call.run.np_random] :
                call \in MonteCarloCalls(engine_db, asset_data, holding_data, np_random)}

\* Whether the call returned, and str(e) if it raised.
EngineOutcomes(endpoint) ==
    {[raised |-> IsRaise(out.result),
      error |-> IF IsRaise(out.result) THEN out.result.msg ELSE <<>>,
      np_random |-> out.np_random] : out \in EngineResults(endpoint)}

InitRuns ==
    /\ asset_data \in {NoTable, TwoAssets}
    /\ holding_data = <<[asset_name |-> "A", weight_percent |-> 60],
                        [asset_name |-> "B", weight_percent |-> 40]>>
    /\ factor_data = OneFactor("F")
    /\ benchmark_data = NoTable
    /\ InitApi
    /\ engine_db = "SupabaseDatabase"
    /\ np_random = 0
    /\ InitCall

\* Whether a database operation fails: at most MaxDbFaults do.
DbFault(fails) ==
    /\ fails => db_faults < MaxDbFaults
    /\ db_faults' = IF fails THEN db_faults + 1 ELSE db_faults

\* An endpoint up to its first await after the run exists: the row is created
\* queued (a failing insert is re-raised, the endpoint answers 500 and there
\* is no run), and the background task is added; run_monte_carlo goes on to
\* call the engine itself.
StartAnalysis(endpoint) ==
    LET run_id == Cardinality(DOMAIN analysis_runs) + 1
    IN  /\ run_id <= MaxRuns
        /\ analysis_runs' = CreateAnalysisRun(analysis_runs, RunType(endpoint))
        /\ tasks' = [r \in DOMAIN tasks \cup {run_id} |->
                        IF r = run_id
                        THEN [endpoint |-> endpoint,
                              pc |-> IF endpoint = "monte-carlo" THEN "analysing"
                                     ELSE "added",
                              error |-> <<>>]
                        ELSE tasks[r]]
        /\ UNCHANGED <<Tables, Session, result_rows, db_faults, np_random,
                       op, args, result, effects, calls, accessed>>

\* lines 19, 37, 53, 69: the task marks the run running.
UpdateRunning(r) ==
    /\ tasks[r].pc = "added"
    /\ \E fails \in BOOLEAN :
           /\ DbFault(fails)
           /\ analysis_runs' = UpdateAnalysisRun(analysis_runs, r, "running",
                                   Int2Rat(ProgressSteps(tasks[r].endpoint)[1]), <<>>, fails)
    /\ tasks' = [tasks EXCEPT ![r].pc = "analysing"]
    /\ UNCHANGED <<Tables, Session, result_rows, np_random,
                   op, args, result, effects, calls, accessed>>

\* lines 22, 39, 55, 71, 222-226: the engine call.  In a task an exception is
\* caught at lines 31, 47, 63, 79; in run_monte_carlo it becomes the response
\* 500 of lines 240-244, which leaves the run as it is.
CallEngine(r) ==
    /\ tasks[r].pc = "analysing"
    /\ \E out \in EngineOutcomes(tasks[r].endpoint) :
           /\ np_random' = out.np_random
           /\ tasks' = [tasks EXCEPT ![r] =
                  [@ EXCEPT !.pc = IF tasks[r].endpoint = "monte-carlo"
                                   THEN (IF out.raised THEN "done" ELSE "storing")
                                   ELSE (IF out.raised THEN "raised" ELSE "analysed"),
                            !.error = out.error]]
    /\ UNCHANGED <<Tables, Session, analysis_runs, result_rows, db_faults,
                   op, args, result, effects, calls, accessed>>

\* lines 24, 41, 57, 73
UpdateProgress(r) ==
    /\ tasks[r].pc = "analysed"
    /\ \E fails \in BOOLEAN :
           /\ DbFault(fails)
           /\ analysis_runs' = UpdateAnalysisRun(analysis_runs, r, "running",
                                   Int2Rat(ProgressSteps(tasks[r].endpoint)[2]), <<>>, fails)
    /\ tasks' = [tasks EXCEPT ![r].pc = "storing"]
    /\ UNCHANGED <<Tables, Session, result_rows, np_random,
                   op, args, result, effects, calls, accessed>>

\* lines 27, 43, 59, 75, 229: the result is stored; what store_result returns
\* is not read.
StoreRunResult(r) ==
    /\ tasks[r].pc = "storing"
    /\ \E fails \in BOOLEAN :
           /\ DbFault(fails)
           /\ result_rows' = StoreResult(result_rows, r, ResultType(tasks[r].endpoint),
                                         ResultKey(tasks[r].endpoint), fails)
    /\ tasks' = [tasks EXCEPT ![r].pc = "stored"]
    /\ UNCHANGED <<Tables, Session, analysis_runs, np_random,
                   op, args, result, effects, calls, accessed>>

\* lines 29, 45, 61, 77, 230
UpdateSucceeded(r) ==
    /\ tasks[r].pc = "stored"
    /\ \E fails \in BOOLEAN :
           /\ DbFault(fails)
           /\ analysis_runs' = UpdateAnalysisRun(analysis_runs, r, "succeeded",
                                                 Int2Rat(100), <<>>, fails)
    /\ tasks' = [tasks EXCEPT ![r].pc = "done"]
    /\ UNCHANGED <<Tables, Session, result_rows, np_random,
                   op, args, result, effects, calls, accessed>>

\* lines 31-32, 47-48, 63-64, 79-80
UpdateFailed(r) ==
    /\ tasks[r].pc = "raised"
    /\ \E fails \in BOOLEAN :
           /\ DbFault(fails)
           /\ analysis_runs' = UpdateAnalysisRun(analysis_runs, r, "failed", NoNumber,
                                                 tasks[r].error, fails)
    /\ tasks' = [tasks EXCEPT ![r].pc = "done"]
    /\ UNCHANGED <<Tables, Session, result_rows, np_random,
                   op, args, result, effects, calls, accessed>>

\* A request of GET /results/{run_id} (lines 274-304); effects tells whether
\* a query of the request failed.
CallGetAnalysisResults ==
    /\ Idle
    /\ \E run_id \in 1..MaxRuns, result_type \in {None, "risk"},
          run_fails \in BOOLEAN, results_fail \in BOOLEAN :
           /\ ~(run_fails /\ results_fail)
           /\ DbFault(run_fails \/ results_fail)
           /\ op' = "get_analysis_results"
           /\ args' = [run_id |-> run_id, result_type |-> result_type,
                       query_failed |-> run_fails \/ results_fail]
           /\ result' = GetAnalysisResults(analysis_runs, result_rows, run_id,
                                           result_type, run_fails, results_fail)
    /\ effects' = NoEffects
    /\ UNCHANGED <<Tables, Session, analysis_runs, result_rows, tasks, np_random,
                   calls, accessed>>

\* A database call of the endpoint or task of run r.
DbStep(r) ==
    \/ UpdateRunning(r)
    \/ UpdateProgress(r)
    \/ StoreRunResult(r)
    \/ UpdateSucceeded(r)
    \/ UpdateFailed(r)

\* The next step of the endpoint or task of run r.
TaskStep(r) == DbStep(r) \/ CallEngine(r)

NextRuns ==
    \/ \E endpoint \in RunEndpoints : StartAnalysis(endpoint)
    \/ \E r \in DOMAIN tasks : TaskStep(r)
    \/ CallGetAnalysisResults
    \/ TakeOutcome

SpecRuns == InitRuns /\ [][NextRuns]_vars

\* The endpoint or task of run r is in its engine call.
InEngineCall(r) == r \in DOMAIN tasks /\ tasks[r].pc = "analysing"

\* The event loop runs every task it was given, every awaited database call
\* returns, and every engine call returns or raises: no endpoint or task is at
\* one step for ever.  For the engine call, which is enabled exactly while
\* the task is in it and is the one step that leaves it, weak fairness is
\* written out: the task is again and again not in the call.
SpecRunsLive ==
    /\ SpecRuns
    /\ \A r \in 1..MaxRuns :
           /\ WF_vars(r \in DOMAIN tasks /\ DbStep(r))
           /\ []<>(~InEngineCall(r))

---------------------------------------------------------------------------
(* Specification of the demo session API (api/v1/simple_analysis.py).  One   *)
(* module global, CURRENT_SESSION, holds the session; uploads, background    *)
(* file-processing tasks, resets and triggers run on one event loop, and     *)
(* every await is a point where another of them may run.                     *)

\* How many values uuid4() gives: the ids of the sessions and of the files.
MaxUuids == 4

\* str(uuid.uuid4()), the k-th value drawn
Uuid(k) == [uuid |-> k]

\* schemas.FileType
FileType == {"assets", "factors", "benchmarks", "sector_holdings"}

\* Names of uploaded files that line 48 accepts.
Filenames == {"prices.csv"}

\* A temp file that has been opened for writing and not written yet.
EmptyContent == [empty |-> TRUE]

\* lines 67-69: temp/analysis/{session_id}/{file_type}_{filename}
TempFilePath(session_id, file_type, filename) ==
    [session_id |-> session_id, file_type |-> file_type, filename |-> filename]

\* dict with one key set: d[key] = value
SetItem(d, key, value) == [k \in DOMAIN d \cup {key} |-> IF k = key THEN value ELSE d[k]]

\* os.remove: the directory without the path
Removed(dir, path) == [p \in DOMAIN dir \ {path} |-> dir[p]]

\* check_and_run_analysis: the session after the call.  The result holds mock
\* metrics, the same in every call, and status completed.
CheckAndRunAnalysis(session) ==
    IF "assets" \in DOMAIN session.files /\ session.files["assets"].status = "completed"
    THEN [session EXCEPT !.analysis_results = [status |-> "completed"]]
    ELSE session

\* lines 147-151: the except clause of the task
TaskFailed(session, file_type, error) ==
    IF file_type \in DOMAIN session.files
    THEN [session EXCEPT !.files[file_type].status = "failed",
                         !.files[file_type].error = error]
    ELSE session

\* get_analysis_status: the response
GetAnalysisStatus(session) ==
    [session_active |-> session.session_id # NoRecord,
     files_uploaded |-> Cardinality(DOMAIN session.files),
     files_processed |-> Cardinality({t \in DOMAIN session.files :
                                         session.files[t].status = "completed"}),
     analysis_ready |-> DOMAIN session.analysis_results # {}]

InitSession ==
    /\ asset_data = NoTable
    /\ holding_data = <<>>
    /\ factor_data = NoTable
    /\ benchmark_data = NoTable
    /\ InitApi
    /\ engine_db = "SupabaseDatabase"
    /\ np_random = 0
    /\ InitCall

\* upload_analysis_file, lines 29-71, up to the await that opens the temp
\* file: the session is created if there is none, and the file record
\* replaces the one of its type.
UploadAnalysisFile(file_type, filename) ==
    LET fresh == CURRENT_SESSION.session_id = NoRecord
        session_id == IF fresh THEN Uuid(uuids + 1) ELSE CURRENT_SESSION.session_id
        k == IF fresh THEN uuids + 2 ELSE uuids + 1
        file_data == [id |-> Uuid(k), session_id |-> session_id, file_type |-> file_type,
                      status |-> "queued", processed_data |-> NoRecord, error |-> None]
    IN  /\ k <= MaxUuids
        /\ uuids' = k
        /\ CURRENT_SESSION' =
               [session_id |-> session_id,
                files |-> SetItem(IF fresh THEN <<>> ELSE CURRENT_SESSION.files,
                                  file_type, file_data),
                analysis_results |-> IF fresh THEN <<>>
                                     ELSE CURRENT_SESSION.analysis_results]
        /\ file_tasks' = SetItem(file_tasks, k,
               [session_id |-> session_id, file_id |-> Uuid(k), file_type |-> file_type,
                file_path |-> TempFilePath(session_id, file_type, filename),
                pc |-> "opening", file_content |-> NoRecord])
        /\ UNCHANGED <<Tables, Runs, temp_files, np_random,
                       op, args, result, effects, calls, accessed>>

\* line 71: the temp file is opened 'wb', which creates or empties it.
OpenTemp(k) ==
    /\ file_tasks[k].pc = "opening"
    /\ temp_files' = SetItem(temp_files, file_tasks[k].file_path, EmptyContent)
    /\ file_tasks' = [file_tasks EXCEPT ![k].pc = "writing"]
    /\ UNCHANGED <<Tables, Runs, CURRENT_SESSION, uuids, np_random,
                   op, args, result, effects, calls, accessed>>

\* lines 72-91: the upload is written (to the file opened, be it removed
\* meanwhile), the task is added and the endpoint answers.
WriteTemp(k) ==
    /\ file_tasks[k].pc = "writing"
    /\ temp_files' = IF file_tasks[k].file_path \in DOMAIN temp_files
                     THEN SetItem(temp_files, file_tasks[k].file_path, file_tasks[k].file_id)
                     ELSE temp_files
    /\ file_tasks' = [file_tasks EXCEPT ![k].pc = "scheduled"]
    /\ UNCHANGED <<Tables, Runs, CURRENT_SESSION, uuids, np_random,
                   op, args, result, effects, calls, accessed>>

\* process_analysis_file_task, lines 101-115, up to the await that opens the
\* file: the record now stored for the type is marked processing.
StartTask(k) ==
    LET task == file_tasks[k]
        processing == IF task.file_type \in DOMAIN CURRENT_SESSION.files
                      THEN [CURRENT_SESSION EXCEPT
                                !.files[task.file_type].status = "processing"]
                      ELSE CURRENT_SESSION
    IN  /\ task.pc = "scheduled"
        /\ IF task.file_path \in DOMAIN temp_files
           THEN /\ CURRENT_SESSION' = processing
                /\ file_tasks' = [file_tasks EXCEPT ![k].pc = "reading"]
           ELSE /\ CURRENT_SESSION' = TaskFailed(processing, task.file_type, "File not found")
                /\ file_tasks' = [file_tasks EXCEPT ![k].pc = "done"]
        /\ UNCHANGED <<Tables, Runs, temp_files, uuids, np_random,
                       op, args, result, effects, calls, accessed>>

\* lines 115-123: the file is read; if it is gone, both opens raise and the
\* except clause of the task runs.
ReadTemp(k) ==
    LET task == file_tasks[k]
    IN  /\ task.pc = "reading"
        /\ IF task.file_path \in DOMAIN temp_files
           THEN /\ file_tasks' = [file_tasks EXCEPT
                                     ![k].pc = "storing",
                                     ![k].file_content = temp_files[task.file_path]]
                /\ UNCHANGED CURRENT_SESSION
           ELSE /\ CURRENT_SESSION' = TaskFailed(CURRENT_SESSION, task.file_type,
                                                 "No such file or directory")
                /\ file_tasks' = [file_tasks EXCEPT ![k].pc = "done"]
        /\ UNCHANGED <<Tables, Runs, temp_files, uuids, np_random,
                       op, args, result, effects, calls, accessed>>

\* lines 125-151: the data are stored in the record now stored for the type
\* (KeyError if there is none, and then the except clause changes nothing),
\* the temp file is removed and the analysis is run if it can be.
StoreProcessed(k) ==
    LET task == file_tasks[k]
        processed_data == [raw_content |-> task.file_content, file_type |-> task.file_type]
    IN  /\ task.pc = "storing"
        /\ IF task.file_type \in DOMAIN CURRENT_SESSION.files
           THEN /\ CURRENT_SESSION' = CheckAndRunAnalysis(
                       [CURRENT_SESSION EXCEPT
                           !.files[task.file_type].processed_data = processed_data,
                           !.files[task.file_type].status = "completed"])
                /\ temp_files' = Removed(temp_files, task.file_path)
           ELSE UNCHANGED <<CURRENT_SESSION, temp_files>>
        /\ file_tasks' = [file_tasks EXCEPT ![k].pc = "done"]
        /\ UNCHANGED <<Tables, Runs, uuids, np_random,
                       op, args, result, effects, calls, accessed>>

\* reset_session
ResetSession ==
    /\ CURRENT_SESSION' = NoSession
    /\ UNCHANGED <<Tables, Runs, file_tasks, temp_files, uuids, np_random,
                   op, args, result, effects, calls, accessed>>

\* trigger_analysis: 400 without a session
TriggerAnalysis ==
    /\ CURRENT_SESSION.session_id # NoRecord
    /\ CURRENT_SESSION' = CheckAndRunAnalysis(CURRENT_SESSION)
    /\ UNCHANGED <<Tables, Runs, file_tasks, temp_files, uuids, np_random,
                   op, args, result, effects, calls, accessed>>

\* A step of the upload k or of the task it has added.
FileStep(k) ==
    \/ OpenTemp(k)
    \/ WriteTemp(k)
    \/ StartTask(k)
    \/ ReadTemp(k)
    \/ StoreProcessed(k)

NextSession ==
    \/ \E file_type \in FileType, filename \in Filenames :
           UploadAnalysisFile(file_type, filename)
    \/ \E k \in DOMAIN file_tasks : FileStep(k)
    \/ ResetSession
    \/ TriggerAnalysis

SpecSession == InitSession /\ [][NextSession]_vars

---------------------------------------------------------------------------
(* Claims about the Return Engine *)

\* The holdings without the rows whose asset is no column of the price table.
PrunedHoldings ==
    SelectSeq(holding_data, LAMBDA row : row.asset_name \in DOMAIN asset_data.px)

\* The portfolio return at date t as section 4.1 of the specification writes it:
\* the sum over the assets both held and priced of weight * return.
RECURSIVE SumOver(_, _)
SumOver(S, f) ==
    IF S = {} THEN Zero
    ELSE LET a == CHOOSE x \in S : TRUE IN RAdd(f[a], SumOver(S \ {a}, f))

ReferenceReturn(t) ==
    LET held == {holding_data[i].asset_name : i \in DOMAIN holding_data} \cap DOMAIN asset_data.px
    IN  SumOver(held, [a \in held |->
            RMul(WeightOf(holding_data, a),
                 RSub(Rat(asset_data.px[a][t], asset_data.px[a][t - 1]), One))])

\* C1: _calculate_portfolio_returns raises nothing for a held asset that is no
\* column of the price table, its result is the result for the holdings pruned
\* of such assets, and each return is the weighted sum over the assets that
\* are both held and priced.
C1_SkipsMissingAssets ==
    op = "_calculate_portfolio_returns" =>
        /\ asset_data.rows > 0 => IsOk(result)
        /\ result = CalculatePortfolioReturns(GetAssetData(asset_data, FALSE), PrunedHoldings)
        /\ IsOk(result) =>
              /\ DOMAIN result.value = 2..asset_data.rows
              /\ \A t \in DOMAIN result.value : result.value[t] = ReferenceReturn(t)

\* A call on a table of two or more rows with a held asset that is priced and
\* a held asset that is not.
C1_Witness ==
    /\ op = "_calculate_portfolio_returns"
    /\ asset_data.rows >= 2
    /\ \E i \in DOMAIN holding_data : holding_data[i].asset_name \notin DOMAIN asset_data.px
    /\ \E i \in DOMAIN holding_data : holding_data[i].asset_name \in DOMAIN asset_data.px
    /\ IsOk(result)
    /\ \E t \in DOMAIN result.value : result.value[t] # Zero

\* C2: computing portfolio returns fails when the price table is empty or has
\* fewer than 2 dated rows, and calculate_historical_performance raises for a
\* table of exactly 1 dated row.
C2_ShortTableFails ==
    /\ (op = "_calculate_portfolio_returns" /\ asset_data.rows < 2) => IsRaise(result)
    /\ (op = "calculate_historical_performance" /\ asset_data.rows = 1) => IsRaise(result)

---------------------------------------------------------------------------
(* Claims about the Optimization Module *)

\* The expected returns of the stored table, as run_markowitz_optimization
\* computes them.
StoredExpectedReturns ==
    IF engine_db = None \/ asset_data.rows = 0 THEN <<>>
    ELSE ExpectedReturns(ReturnsFrame(GetAssetData(asset_data, FALSE)))

\* The target levels of the frontier of the stored table.
StoredLevels ==
    LET mu == StoredExpectedReturns
    IN  Linspace(MinOfSeq(mu), MaxOfSeq(mu), NPoints)

\* A call of run_markowitz_optimization that returned its record.
Optimized == op = "run_markowitz_optimization" /\ IsOk(result)

\* C3: run_markowitz_optimization minimizes variance under the added constraint
\* w.mu = target_return whenever a target_return is supplied, 0 included;
\* otherwise maximizes the utility whenever a risk_aversion is supplied, 0
\* included; and uses the Sharpe objective only when neither is supplied.
C3_ObjectivePriority ==
    (op = "run_markowitz_optimization" /\ effects.objective # None) =>
        IF args.target_return # NoNumber
        THEN effects.objective = "variance" /\ "target_return" \in effects.constraints
        ELSE IF args.risk_aversion # NoNumber
        THEN effects.objective = "utility" /\ "target_return" \notin effects.constraints
        ELSE effects.objective = "sharpe" /\ "target_return" \notin effects.constraints

\* C7: when the main solve reports that it did not converge, the call raises
\* the optimization error, returns no record, and has run the solver once (the
\* frontier is not computed).
C7_NoConvergenceFails ==
    (op = "run_markowitz_optimization" /\ effects.success = "False") =>
        /\ IsRaise(result)
        /\ result.exc = "ValueError"
        /\ result.msg = <<"Optimization failed: ", "Optimization failed to converge">>
        /\ effects.minimize_calls = 1
        /\ effects.frontier_failed = {}

\* A main solve that did not converge, on a table of two assets.
C7_Witness ==
    /\ op = "run_markowitz_optimization"
    /\ effects.success = "False"
    /\ Cardinality(DOMAIN asset_data.px) = 2
    /\ asset_data.rows = MaxRows
    /\ IsRaise(result)

\* C8: the optimal_weights of a successful call have one entry per asset column
\* of the price table, each in [0, 1], and sum to 1 (the solver returning, on
\* success, a point within the constraints and the bounds).
C8_WeightsOnSimplex ==
    Optimized =>
        LET w == result.value.optimal_weights
        IN  /\ DOMAIN w = DOMAIN asset_data.px
            /\ \A c \in DOMAIN w : RLe(Zero, w[c]) /\ RLe(w[c], One)
            /\ SumOver(DOMAIN w, w) = One

\* A successful call on two assets whose weights are both strictly inside (0, 1).
C8_Witness ==
    /\ Optimized
    /\ Cardinality(DOMAIN asset_data.px) = 2
    /\ \A c \in DOMAIN result.value.optimal_weights :
           /\ RLt(Zero, result.value.optimal_weights[c])
           /\ RLt(result.value.optimal_weights[c], One)

\* The frontier levels whose solve succeeded, in order.
KeptLevels == SelectSeq([k \in 1..NPoints |-> k], LAMBDA k : k \notin effects.frontier_failed)

\* C9, as amended: the frontier has at most 50 points, which are the levels
\* whose solve succeeded, in the order of the levels (non-decreasing in
\* return, and increasing with no level repeated when the least expected
\* return is below the greatest); a failed level is omitted and the call
\* still returns.
C9_FrontierLevels ==
    Optimized =>
        LET points == result.value.efficient_frontier
            levels == StoredLevels
            kept == KeptLevels
            mu == StoredExpectedReturns
            spread == RLt(MinOfSeq(mu), MaxOfSeq(mu))
        IN  /\ Len(points) <= NPoints
            /\ Len(points) = Len(kept)
            /\ \A i \in DOMAIN points : points[i].return = levels[kept[i]]
            /\ \A i \in DOMAIN points :
                   i + 1 \in DOMAIN points =>
                       IF spread THEN RLt(points[i].return, points[i + 1].return)
                       ELSE RLe(points[i].return, points[i + 1].return)

\* A returned frontier with a failed level left out and increasing levels.
C9_Witness ==
    /\ Optimized
    /\ effects.frontier_failed # {}
    /\ Len(result.value.efficient_frontier) = NPoints - 1
    /\ RLt(result.value.efficient_frontier[1].return, result.value.efficient_frontier[2].return)

\* C9, as claimed: at most 50 points, each at one of the 50 levels, in
\* increasing order of return with no level repeated, the failed levels omitted.
C9_NoLevelRepeated ==
    Optimized =>
        LET points == result.value.efficient_frontier
            levels == Range(StoredLevels)
        IN  /\ Len(points) <= NPoints
            /\ Len(points) = Len(KeptLevels)
            /\ \A i \in DOMAIN points : points[i].return \in levels
            /\ \A i \in DOMAIN points :
                   i + 1 \in DOMAIN points => RLt(points[i].return, points[i + 1].return)

\* Each risk of the returned frontier is the exact minimum-variance risk of its
\* level: the constraints leave one point (one asset, or two assets of unequal
\* expected returns), and the variance of that point is a number.
ExactFrontier ==
    /\ Optimized
    /\ LET mu == StoredExpectedReturns
       IN  Len(mu) = 1 \/ Determined(mu, Zero) # {}
    /\ \A i \in DOMAIN result.value.efficient_frontier :
           ~RootIsNaN(result.value.efficient_frontier[i].risk)

\* The variance of the i-th point of the returned frontier (its risk, squared).
PointVariance(i) == result.value.efficient_frontier[i].risk.b

\* The pairs of adjacent points of the returned frontier, by the first index.
AdjacentPairs == {i \in DOMAIN result.value.efficient_frontier :
                      i + 1 \in DOMAIN result.value.efficient_frontier}

\* C10, as amended: along a frontier of exact minimum-variance risks, once the
\* risk rises between two adjacent points it falls between no later two: risk
\* is non-decreasing from the point of least risk on, and may fall before it.
C10_RiskRisesOnce ==
    ExactFrontier =>
        LET rises == {i \in AdjacentPairs : RLt(PointVariance(i), PointVariance(i + 1))}
            falls == {j \in AdjacentPairs : RGt(PointVariance(j), PointVariance(j + 1))}
        IN  \A i \in rises : \A j \in falls : j < i

\* A frontier of exact risks that falls and later rises.
C10_Witness ==
    /\ ExactFrontier
    /\ \E i, j \in AdjacentPairs :
           /\ i < j
           /\ RGt(PointVariance(i), PointVariance(i + 1))
           /\ RLt(PointVariance(j), PointVariance(j + 1))

\* C10, as claimed: of two adjacent points of a frontier of exact
\* minimum-variance risks, the one of higher target return has the risk that
\* is greater or equal.
C10_RiskNonDecreasing ==
    ExactFrontier =>
        \A i \in AdjacentPairs : RGe(PointVariance(i + 1), PointVariance(i))

---------------------------------------------------------------------------
(* Claims about the Monte Carlo Module *)

\* C4: run_monte_carlo_simulation raises, and runs no simulation, for every
\* request whose num_simulations exceeds MAX_MONTE_CARLO_SIMULATIONS, whoever
\* the caller.
C4_RejectsAboveMaximum ==
    (op = "run_monte_carlo_simulation"
     /\ args.num_simulations > MAX_MONTE_CARLO_SIMULATIONS) =>
        IsRaise(result) /\ effects.simulations = 0

---------------------------------------------------------------------------
(* Claims about every entry point *)

EntryPoints == {"calculate_historical_performance", "generate_risk_diagnostics",
                "run_sensitivity_analysis", "run_markowitz_optimization",
                "run_monte_carlo_simulation"}

\* The keys of the record each entry point returns.
ResultKeys(entry) ==
    CASE entry = "calculate_historical_performance" ->
            {"portfolio_metrics", "benchmark_comparison", "time_series", "attribution"}
      [] entry = "generate_risk_diagnostics" ->
            {"risk_metrics", "risk_decomposition", "rolling_metrics"}
      [] entry = "run_sensitivity_analysis" ->
            {"individual_results", "combined_impact", "stress_test_matrix"}
      [] entry = "run_markowitz_optimization" ->
            {"optimal_weights", "expected_return", "expected_risk", "sharpe_ratio",
             "efficient_frontier"}
      [] entry = "run_monte_carlo_simulation" ->
            {"simulations", "percentiles", "final_values", "probability_of_loss",
             "expected_shortfall"}

\* The words by which the message of an error names the analysis.
ErrorPrefix(entry) ==
    CASE entry = "calculate_historical_performance" -> "Performance calculation failed: "
      [] entry = "generate_risk_diagnostics" -> "Risk analysis failed: "
      [] entry = "run_sensitivity_analysis" -> "Sensitivity analysis failed: "
      [] entry = "run_markowitz_optimization" -> "Optimization failed: "
      [] entry = "run_monte_carlo_simulation" -> "Monte Carlo simulation failed: "

\* A validation failure of the call made: no binding of db, no price row, no
\* holding or no factor row where the entry point reads them.
ValidationFails ==
    \/ engine_db = None
    \/ asset_data.rows = 0
    \/ holding_data = <<>> /\ op # "run_markowitz_optimization"
    \/ factor_data.rows = 0 /\ op = "run_sensitivity_analysis"

\* C6: a call of an entry point either returns a record with all the keys of
\* its analysis, or raises an error whose message begins with the name of the
\* analysis; after a validation failure, or a main solve that did not
\* converge, it raises.
C6_AllOrNothing ==
    op \in EntryPoints =>
        /\ \/ IsOk(result) /\ DOMAIN result.value = ResultKeys(op)
           \/ /\ IsRaise(result)
              /\ result.exc = "ValueError"
              /\ Len(result.msg) >= 2
              /\ Head(result.msg) = ErrorPrefix(op)
        /\ (ValidationFails \/ effects.success = "False") => IsRaise(result)

\* A sensitivity call on a portfolio without holdings, which raises.
C6_Witness ==
    /\ op = "run_sensitivity_analysis"
    /\ engine_db # None
    /\ asset_data.rows > 0
    /\ factor_data.rows > 0
    /\ holding_data = <<>>
    /\ IsRaise(result)
    /\ Head(result.msg) = "Sensitivity analysis failed: "

---------------------------------------------------------------------------
(* Claims about concurrent calls *)

\* C5: for any two concurrent calls and any interleaving of their steps, no
\* object of the process (an attribute of the engine, a module global, the
\* generator of the simulation) is written by one call and read or written
\* by the other.
C5_NoSharedMutableState ==
    \A a \in accessed : \A b \in accessed :
        (a.call # b.call /\ a.object = b.object) => (a.mode = "read" /\ b.mode = "read")

---------------------------------------------------------------------------
(* Claims about the paths and the statistics of the Monte Carlo Module *)

\* A call of run_monte_carlo_simulation that returned its record.
Simulated == op = "run_monte_carlo_simulation" /\ IsOk(result)

\* The mean and the standard deviation of the returns of the stored portfolio.
StoredStats ==
    Apply(LAMBDA portfolio_returns :
              [mean |-> Mean(portfolio_returns), std |-> Std(portfolio_returns)],
          CalculatePortfolioReturns(GetAssetData(asset_data, FALSE), holding_data).value)

\* The place of the generator before the call that has just been made.
GeneratorBefore == (((np_random - effects.draws) % Period) + Period) % Period

\* The paths of the call in the order they were generated, every one of them.
GeneratedPaths ==
    Apply(LAMBDA stats :
              Eager([i \in 1..args.num_simulations |->
                  RunSingleSimulation(stats.mean, stats.std, args.time_horizon,
                                      StartOf(i - 1, args.time_horizon, GeneratorBefore))]),
          StoredStats)

\* A list of numbers as the values in it and how often each occurs.
Histogram(list) ==
    Apply(LAMBDA vals :
              [vals |-> vals,
               count |-> Eager([x \in vals |-> Cardinality({i \in DOMAIN list : list[i] = x})])],
          Range(list))

\* The sum of the values of S, each as often as it occurs.
HistSum(h, S) == FSum(S, [x \in S |-> FScale(Int2Rat(h.count[x]), x)])

\* The value at place k (from 0) of the list in increasing order.
Ranked(h, k, sq) ==
    CHOOSE x \in h.vals :
        /\ SumInt({y \in h.vals : FLt(y, x, sq)}, h.count) <= k
        /\ k < SumInt({y \in h.vals : FLe(y, x, sq)}, h.count)

\* The percentile of a list of n numbers none of which is NaN, by linear
\* interpolation between the two nearest ranks.
ListPercentile(h, n, pct, sq) ==
    LET lo == (pct * (n - 1)) \div 100
        hi == IF lo + 1 < n THEN lo + 1 ELSE lo
        frac == Rat((pct * (n - 1)) % 100, 100)
    IN  FAdd(Ranked(h, lo, sq),
             FScale(frac, FSub(Ranked(h, hi, sq), Ranked(h, lo, sq))))

\* C11: the call returns min(100, num_simulations) paths, the first generated
\* in the order of generation; the percentiles, mean, std, min and max of the
\* final values, probability_of_loss and expected_shortfall are taken over the
\* final values of all num_simulations paths (stated for the requests whose
\* paths are few enough to list: at most one more than are returned).
C11_FirstPathsAllStatistics ==
    Simulated =>
        LET n == args.num_simulations
            returned == result.value.simulations
        IN  /\ Len(returned) = IF n < ReturnedPaths THEN n ELSE ReturnedPaths
            /\ n <= ReturnedPaths + 1 =>
                 LET paths == GeneratedPaths
                     sq == StoredStats.std.sq
                     h == Histogram([i \in 1..n |-> paths[i][Len(paths[i])]])
                     nan == \E x \in h.vals : FIsNaN(x)
                     mean == FScale(Rat(1, n), HistSum(h, h.vals))
                     p5 == IF nan THEN FNaN ELSE ListPercentile(h, n, 5, sq)
                     tail == {x \in h.vals : FLe(x, p5, sq)}
                     stats == result.value.final_values
                 IN  /\ \A i \in DOMAIN returned : returned[i] = paths[i]
                     /\ result.value.probability_of_loss =
                            Rat(SumInt({x \in h.vals : FLt(x, FRat(One), sq)}, h.count), n)
                     /\ stats.mean = mean
                     /\ stats.std.sqrt_of =
                            FScale(Rat(1, n),
                                   FSum(h.vals, [x \in h.vals |->
                                       FScale(Int2Rat(h.count[x]),
                                              FMul(FSub(x, mean), FSub(x, mean), sq))]))
                     /\ IF nan THEN FIsNaN(stats.min) /\ FIsNaN(stats.max)
                        ELSE /\ stats.min \in h.vals /\ stats.max \in h.vals
                             /\ \A x \in h.vals : FLe(stats.min, x, sq) /\ FLe(x, stats.max, sq)
                     /\ \A k \in DOMAIN PercentileKeys :
                            result.value.percentiles[k] =
                                IF nan THEN FNaN
                                ELSE ListPercentile(h, n, PercentileKeys[k], sq)
                     /\ result.value.expected_shortfall =
                            IF tail = {} THEN FNaN
                            ELSE FScale(Rat(1, SumInt(tail, h.count)), HistSum(h, tail))

\* A call for more paths than are returned, whose final values differ between
\* paths.
C11_Witness ==
    /\ Simulated
    /\ args.num_simulations = ReturnedPaths + 1
    /\ Len(result.value.simulations) = ReturnedPaths
    /\ result.value.final_values.min # result.value.final_values.max
    /\ ~FIsNaN(result.value.final_values.mean)

\* C12: when the returns of the portfolio have mean 0 and standard deviation
\* 0, then for every num_simulations >= 1 and time_horizon >= 0 the final value
\* of every path is 1.0 and probability_of_loss is 0.
C12_ZeroStatisticsStayAtOne ==
    (/\ op = "run_monte_carlo_simulation"
     /\ effects.simulations >= 1
     /\ args.time_horizon >= 0
     /\ StoredStats.mean = Zero
     /\ StoredStats.std.sq = Zero) =>
        /\ IsOk(result)
        /\ \A i \in DOMAIN result.value.simulations :
               LET path == result.value.simulations[i]
               IN  Len(path) = args.time_horizon + 1 /\ path[Len(path)] = FRat(One)
        /\ result.value.final_values.min = FRat(One)
        /\ result.value.final_values.max = FRat(One)
        /\ result.value.probability_of_loss = Zero

\* Many paths of two steps from a table of constant prices.
C12_Witness ==
    /\ Simulated
    /\ args.num_simulations > ReturnedPaths + 1
    /\ args.time_horizon = 2
    /\ asset_data.rows = MaxRows
    /\ StoredStats.mean = Zero
    /\ StoredStats.std.sq = Zero
    /\ result.value.probability_of_loss = Zero

---------------------------------------------------------------------------
(* Claims about the Sensitivity Module *)

\* A call of run_sensitivity_analysis that returned its record.
Analysed == op = "run_sensitivity_analysis" /\ IsOk(result)

\* The labels of the fixed grid -2%, -1%, 0%, +1%, +2%.
GridLabels == {"-2.0%", "-1.0%", "0.0%", "1.0%", "2.0%"}

\* C13: whatever shocks are requested (none, or of unknown factors, too), the
\* stress_test_matrix returned has one row for every factor column of the
\* factor table, and every row has exactly 5 distinct entries, one for each
\* level of the grid -2%, -1%, 0%, +1%, +2%.
C13_StressMatrixShape ==
    Analysed =>
        LET matrix == result.value.stress_test_matrix
        IN  /\ DOMAIN matrix = DOMAIN factor_data.px
            /\ \A factor \in DOMAIN matrix :
                   /\ Cardinality(DOMAIN matrix[factor]) = 5
                   /\ DOMAIN matrix[factor] = GridLabels

\* A returned matrix of two factors, for a request that shocks one of them
\* and an unknown factor.
C13_Witness ==
    /\ Analysed
    /\ Cardinality(DOMAIN factor_data.px) = 2
    /\ DOMAIN args.shocks \cap DOMAIN factor_data.px # {}
    /\ DOMAIN args.shocks \ DOMAIN factor_data.px # {}
    /\ DOMAIN factor_data.px \ DOMAIN args.shocks # {}
    /\ Cardinality(DOMAIN result.value.stress_test_matrix) = 2

\* C14: individual_results has an entry for exactly the requested shock
\* factors that are factors of the loadings (a shock of an unknown factor is
\* ignored), each with the shock requested, and combined_impact is the sum of
\* the portfolio_impact of those entries, 0 when there is none.
C14_ResultsOfKnownShocks ==
    Analysed =>
        LET results == result.value.individual_results
            known == DOMAIN args.shocks \cap DOMAIN factor_data.px
        IN  /\ DOMAIN results = known
            /\ \A f \in known : results[f].shock_value = args.shocks[f]
            /\ result.value.combined_impact =
                   SurdSum(known, [f \in known |-> results[f].portfolio_impact])
            /\ known = {} => result.value.combined_impact = SurdZero

\* Two shocked factors with impacts, whose sum is the combined impact.
C14_Witness ==
    /\ Analysed
    /\ Cardinality(DOMAIN result.value.individual_results) = 2
    /\ \A f \in DOMAIN result.value.individual_results :
           /\ result.value.individual_results[f].portfolio_impact # SurdZero
           /\ result.value.individual_results[f].portfolio_impact
                  # result.value.combined_impact

\* The weight of an asset in the stored holdings: of its last row.
StoredWeight(asset) ==
    LET last == CHOOSE i \in DOMAIN holding_data :
                    /\ holding_data[i].asset_name = asset
                    /\ \A j \in DOMAIN holding_data :
                           holding_data[j].asset_name = asset => j <= i
    IN  Rat(holding_data[last].weight_percent, 100)

\* C15: _calculate_shock_impact returns asset_impacts[asset] = loading[asset]
\* * shock for exactly the assets in both the loadings and the weights, and
\* portfolio_impact the sum over them of weight[asset] * asset_impacts[asset];
\* one asset of loading 1 and weight 100% under the shock 0.02 gives 0.02.
C15_ShockImpact ==
    op = "_calculate_shock_impact" =>
        LET both == DOMAIN args.loadings
                        \cap {holding_data[i].asset_name : i \in DOMAIN holding_data}
            impacts == result.value.asset_impacts
        IN  /\ DOMAIN impacts = both
            /\ \A asset \in both : impacts[asset] = SurdScale(args.shock, args.loadings[asset])
            /\ result.value.portfolio_impact =
                   SurdSum(both, [asset \in both |->
                                     SurdScale(StoredWeight(asset), impacts[asset])])
            /\ (/\ args.loadings = [asset \in {"A"} |-> Surd(One, One)]
                /\ holding_data = <<[asset_name |-> "A", weight_percent |-> 100]>>
                /\ args.shock = Rat(2, 100))
                   => result.value.portfolio_impact = Surd(Rat(2, 100), One)

\* Loadings of an asset held and of one not held, and a holding without a
\* loading: the impact is that of the one asset in both.
C15_Witness ==
    /\ op = "_calculate_shock_impact"
    /\ DOMAIN args.loadings = {"A", "B"}
    /\ {holding_data[i].asset_name : i \in DOMAIN holding_data} = {"A", "X"}
    /\ DOMAIN result.value.asset_impacts = {"A"}
    /\ result.value.portfolio_impact # SurdZero

---------------------------------------------------------------------------
(* Claims about the validation of the stored tables *)

\* C16: run_sensitivity_analysis raises and returns no record whenever the
\* price table, the factor table or the holdings are empty;
\* run_monte_carlo_simulation raises, returns no record and runs no
\* simulation whenever the price table or the holdings are empty.
C16_EmptyTablesFail ==
    /\ (/\ op = "run_sensitivity_analysis"
        /\ (asset_data.rows = 0 \/ factor_data.rows = 0 \/ holding_data = <<>>))
           => /\ IsRaise(result)
              /\ Head(result.msg) = "Sensitivity analysis failed: "
    /\ (/\ op = "run_monte_carlo_simulation"
        /\ (asset_data.rows = 0 \/ holding_data = <<>>))
           => /\ IsRaise(result)
              /\ Head(result.msg) = "Monte Carlo simulation failed: "
              /\ effects.simulations = 0
              /\ effects.draws = 0

\* A simulation asked of a portfolio with prices and without holdings, which
\* fails for its data.
C16_Witness ==
    /\ op = "run_monte_carlo_simulation"
    /\ asset_data.rows > 0
    /\ holding_data = <<>>
    /\ args.num_simulations > 0
    /\ IsRaise(result)
    /\ result.msg = <<"Monte Carlo simulation failed: ",
                      "Insufficient data for Monte Carlo simulation">>

---------------------------------------------------------------------------
(* Claims about the metrics of constant prices *)

\* The stored price table has the rows of a return and every column holds one
\* price.
ConstantPrices ==
    /\ asset_data.rows >= 2
    /\ \A a \in DOMAIN asset_data.px :
           \A i, j \in 1..asset_data.rows : asset_data.px[a][i] = asset_data.px[a][j]

\* (base ** 252 - 1) / over is 0
RatioIsZero(ratio) == ratio.base = One /\ ~IsNaN(ratio.over) /\ ratio.over.n # 0

\* C17: for a price table of N rows of constant prices (here N >= 2, the
\* tables that yield a return) and any weights, every
\* return of the portfolio return series is 0, and the metrics of
\* _calculate_performance_metrics have volatility = 0, sharpe_ratio = 0,
\* sortino_ratio = 0, calmar_ratio = 0 and max_drawdown = 0.
C17_ConstantPricesZeroMetrics ==
    (/\ op = "calculate_historical_performance"
     /\ IsOk(result)
     /\ ConstantPrices)
        => /\ \A t \in DOMAIN result.value.time_series :
                  result.value.time_series[t] = Zero
           /\ RootIsZero(result.value.portfolio_metrics.volatility)
           /\ RootIsZero(result.value.portfolio_metrics.sharpe_ratio)
           /\ RootIsZero(result.value.portfolio_metrics.sortino_ratio)
           /\ RatioIsZero(result.value.portfolio_metrics.calmar_ratio)
           /\ result.value.portfolio_metrics.max_drawdown = Zero

---------------------------------------------------------------------------
(* Claims about the comparison with a benchmark *)

Compared == op = "_compare_with_benchmark"

\* The dates with a return in both series of the call.
CommonDates == DOMAIN args.portfolio_returns \cap DOMAIN args.benchmark_returns

\* A series of the call on the common dates.
OnCommonDates(series) == [t \in CommonDates |-> series[t]]

\* C18: _compare_with_benchmark computes its metrics over exactly the dates
\* that are in both the portfolio and the benchmark return series, and it
\* returns None if and only if no date is in both.
C18_MetricsOverCommonDates ==
    Compared =>
        /\ result.value = NoRecord <=> CommonDates = {}
        /\ CommonDates # {} =>
               /\ result.value.benchmark_metrics =
                      CalculatePerformanceMetrics(OnCommonDates(args.benchmark_returns),
                                                  FALSE).value
               /\ result.value =
                      CompareAligned(OnCommonDates(args.portfolio_returns),
                                     OnCommonDates(args.benchmark_returns))

\* A comparison of series that share a date and have each a date of their
\* own.
C18_Witness ==
    /\ Compared
    /\ CommonDates # {}
    /\ DOMAIN args.portfolio_returns \ CommonDates # {}
    /\ DOMAIN args.benchmark_returns \ CommonDates # {}
    /\ result.value # NoRecord
    /\ result.value.benchmark_metrics.total_return # Zero

\* The two series of the call are equal on their common dates, and the
\* benchmark varies there.
SameReturns ==
    /\ Compared
    /\ OnCommonDates(args.portfolio_returns) = OnCommonDates(args.benchmark_returns)
    /\ \E t, u \in CommonDates : args.benchmark_returns[t] # args.benchmark_returns[u]

\* C19: beta is the covariance of the aligned portfolio and benchmark returns
\* over the variance of the aligned benchmark returns, both of one
\* normalisation, so that a portfolio whose aligned returns are the
\* benchmark's, of non-zero variance, has beta = 1 and alpha = 0.
C19_BetaOfBenchmarkIsOne ==
    SameReturns => /\ result.value.beta = One
                   /\ result.value.alpha = Zero

---------------------------------------------------------------------------
(* Claims about the rolling metrics *)

Rolled == op = "_calculate_rolling_metrics"

\* The dates of the return series of the call, in order.
RollingDates == SortedDates(DOMAIN args.returns)

\* The args.window consecutive returns of which the one of date RollingDates[k]
\* is the last.
WindowEnding(k) ==
    [t \in {RollingDates[j] : j \in (k - args.window + 1)..k} |-> args.returns[t]]

\* C20: _calculate_rolling_metrics with window w over n returns emits one
\* record per window of w consecutive returns, keyed by the date of the last
\* return of its window, and no record of fewer than w returns: none when
\* n <= w.
C20_RecordPerWindow ==
    Rolled =>
        LET n == Len(RollingDates)
            w == args.window
        IN  /\ n <= w => result.value = <<>>
            /\ n > w => Len(result.value) = n - w + 1
            /\ \A r \in DOMAIN result.value :
                   \E k \in w..n :
                       /\ result.value[r].date = RollingDates[k]
                       /\ result.value[r].volatility =
                              Root(One, RMul(Var(WindowEnding(k)), Int2Rat(TradingDays)))
                       /\ result.value[r].var_95 = Percentile(WindowEnding(k), 5)

---------------------------------------------------------------------------
(* Claims about the Risk Module *)

Diagnosed == op = "generate_risk_diagnostics" /\ IsOk(result)

\* C21: for one price table and weights, var_breakdown[asset] of
\* _calculate_risk_metrics is exactly 2 times asset_contributions[asset] of
\* _calculate_risk_decomposition for every asset reported when
\* portfolio_variance > 0, and both are 0 when portfolio_variance = 0.
C21_BreakdownTwiceContribution ==
    Diagnosed =>
        LET var_breakdown == result.value.risk_metrics.var_breakdown
            asset_contributions == result.value.risk_decomposition.asset_contributions
            portfolio_variance == result.value.risk_metrics.portfolio_variance
        IN  /\ DOMAIN var_breakdown = DOMAIN asset_contributions
            /\ RGt(portfolio_variance, Zero) =>
                   \A asset \in DOMAIN var_breakdown :
                       var_breakdown[asset] = RMul(Int2Rat(2), asset_contributions[asset])
            /\ portfolio_variance = Zero =>
                   \A asset \in DOMAIN var_breakdown :
                       var_breakdown[asset] = Zero /\ asset_contributions[asset] = Zero

\* Diagnostics of a portfolio of positive variance in which two assets have
\* contributions that differ and are not 0.
C21_Witness ==
    /\ Diagnosed
    /\ RGt(result.value.risk_metrics.portfolio_variance, Zero)
    /\ \E a, b \in DOMAIN result.value.risk_metrics.var_breakdown :
           /\ result.value.risk_decomposition.asset_contributions[a] # Zero
           /\ result.value.risk_decomposition.asset_contributions[b] # Zero
           /\ result.value.risk_decomposition.asset_contributions[a] #
                  result.value.risk_decomposition.asset_contributions[b]

---------------------------------------------------------------------------
(* Claims about the return attribution *)

\* The mean of the returns p[t] / p[t-1] - 1 of a stored price column: NaN
\* for a column of one price.
StoredMeanReturn(asset) ==
    IF asset_data.rows < 2 THEN NaN
    ELSE RDiv(SumSeq([i \in 1..(asset_data.rows - 1) |->
                         RSub(Rat(asset_data.px[asset][i + 1], asset_data.px[asset][i]), One)]),
              Int2Rat(asset_data.rows - 1))

\* C22: _calculate_return_attribution reports an entry for exactly the assets
\* that are both held and a price column, each equal to weight * mean(asset
\* return) * 252; a holding whose asset has no price column gives no entry and
\* no error.
C22_AttributionOfHeldAndPriced ==
    op = "calculate_historical_performance" =>
        /\ IsOk(result) =>
               /\ DOMAIN result.value.attribution =
                      {holding_data[i].asset_name : i \in DOMAIN holding_data}
                          \cap DOMAIN asset_data.px
               /\ \A asset \in DOMAIN result.value.attribution :
                      result.value.attribution[asset] =
                          RMul(StoredWeight(asset),
                               RMul(StoredMeanReturn(asset), Int2Rat(TradingDays)))
        /\ (/\ IsRaise(result)
            /\ engine_db # None
            /\ asset_data.rows >= 2
            /\ holding_data # <<>>
            /\ ~TruthyStr(args.benchmark_name))
               => result.msg = <<"Performance calculation failed: ">> \o HoldingsQueryFails.msg

\* A record of performance for holdings of a priced asset of non-zero mean
\* return and of an asset without prices.
C22_Witness ==
    /\ op = "calculate_historical_performance"
    /\ IsOk(result)
    /\ \E i \in DOMAIN holding_data : holding_data[i].asset_name \notin DOMAIN asset_data.px
    /\ DOMAIN asset_data.px \ {holding_data[i].asset_name : i \in DOMAIN holding_data} # {}
    /\ \E asset \in DOMAIN result.value.attribution :
           ~IsNaN(result.value.attribution[asset]) /\ result.value.attribution[asset] # Zero

---------------------------------------------------------------------------
(* Claims about the end-to-end scenario *)

\* The prices of the scenario, as stated: A = 100, 101, 102, 100 and
\* B = 50, 50, 51, 51.51.
StatedPrice(asset, t) ==
    IF asset = "A" THEN Int2Rat(<<100, 101, 102, 100>>[t])
    ELSE <<Int2Rat(50), Int2Rat(50), Int2Rat(51), Rat(5151, 100)>>[t]

\* 0.6 * rA[t] + 0.4 * rB[t], r = p[t] / p[t-1] - 1
StatedReturn(t) ==
    RAdd(RMul(Rat(6, 10), RSub(RDiv(StatedPrice("A", t), StatedPrice("A", t - 1)), One)),
         RMul(Rat(4, 10), RSub(RDiv(StatedPrice("B", t), StatedPrice("B", t - 1)), One)))

\* The stored tables are the scenario: 4 dates, both assets, A = 60%, B = 40%.
InScenario ==
    /\ asset_data = [rows |-> 4, px |-> ScenarioPrices]
    /\ holding_data = <<[asset_name |-> "A", weight_percent |-> 60],
                        [asset_name |-> "B", weight_percent |-> 40]>>

\* C23: for A = 100, 101, 102, 100 and B = 50, 50, 51, 51.51 over 4 dates and
\* weights A = 60%, B = 40%, the portfolio return at each of the 3 return
\* dates is 0.6 * rA[t] + 0.4 * rB[t], and total_return is the product over
\* the 3 dates of (1 + portfolio return), minus 1.
C23_ScenarioByHand ==
    InScenario =>
        /\ op = "_calculate_portfolio_returns" =>
               /\ IsOk(result)
               /\ DOMAIN result.value = 2..4
               /\ \A t \in 2..4 : result.value[t] = StatedReturn(t)
        /\ op = "total_return" =>
               result.value =
                   RSub(RMul(RAdd(One, StatedReturn(2)),
                             RMul(RAdd(One, StatedReturn(3)), RAdd(One, StatedReturn(4)))),
                        One)

\* The total return of the scenario, 19101703 / 1578125000 = 0.012104...
C23_Witness ==
    /\ InScenario
    /\ op = "total_return"
    /\ result.value = Rat(19101703, 1578125000)

\* The assets of the stored holdings, and those of them that are priced.
HeldAssets == {holding_data[i].asset_name : i \in DOMAIN holding_data}

HeldAndPriced == HeldAssets \cap DOMAIN asset_data.px

\* The weight of a price column in the portfolio variance: 0 without holding.
ColumnWeight(asset) == IF asset \in HeldAssets THEN StoredWeight(asset) ELSE Zero

\* The annualized covariance of the returns of two stored price columns.
StoredCovariance(a, b) ==
    RMul(Cov(PctChange(asset_data.px[a], 1..asset_data.rows),
             PctChange(asset_data.px[b], 1..asset_data.rows)),
         Int2Rat(TradingDays))

\* The pairs of stored price columns.
PricedPairs == (DOMAIN asset_data.px) \X (DOMAIN asset_data.px)

\* C24: in _calculate_risk_metrics and _calculate_risk_decomposition a price
\* column without holding has weight 0 in portfolio_variance and no entry in
\* var_breakdown or asset_contributions, and a holding without price column
\* changes neither portfolio_variance nor any entry: the keys of both
\* mappings are exactly the assets that are both price columns and held.
C24_KeysOfHeldAndPriced ==
    Diagnosed =>
        /\ DOMAIN result.value.risk_metrics.var_breakdown = HeldAndPriced
        /\ DOMAIN result.value.risk_decomposition.asset_contributions = HeldAndPriced
        /\ result.value.risk_metrics.portfolio_variance =
               SumOver(PricedPairs,
                       [pair \in PricedPairs |->
                           RMul(RMul(ColumnWeight(pair[1]), ColumnWeight(pair[2])),
                                StoredCovariance(pair[1], pair[2]))])
        /\ result.value.risk_metrics =
               CalculateRiskMetrics(GetAssetData(asset_data, FALSE), Weights(PrunedHoldings))
        /\ result.value.risk_decomposition =
               CalculateRiskDecomposition(GetAssetData(asset_data, FALSE),
                                          Weights(PrunedHoldings))

\* Diagnostics of positive variance for a table with a column that is not
\* held and holdings with an asset that is not priced.
C24_Witness ==
    /\ Diagnosed
    /\ DOMAIN asset_data.px \ HeldAssets # {}
    /\ HeldAssets \ DOMAIN asset_data.px # {}
    /\ HeldAndPriced # {}
    /\ RGt(result.value.risk_metrics.portfolio_variance, Zero)
    /\ \E a \in DOMAIN asset_data.px \ HeldAssets : RGt(StoredCovariance(a, a), Zero)

---------------------------------------------------------------------------
(* Claims about a single simulation path *)

\* The draw of step t of the path of the call: the generator has advanced by
\* t - 1 draws since the call began.
DrawOfStep(t) ==
    Normal(args.mean_return, args.std_return, (GeneratorBefore + t - 1) % Period)

\* The path of the call compounds one draw per step from 1.0 and has `length`
\* values.
PathCompounds(length) ==
    /\ Len(result.value) = length
    /\ result.value[1] = FRat(One)
    /\ \A t \in 1..(Len(result.value) - 1) :
           result.value[t + 1] =
               FMul(result.value[t], FAdd(FRat(One), DrawOfStep(t)), args.std_return.sq)
    /\ effects.draws = Len(result.value) - 1

\* C25: every path of _run_single_simulation starts at 1.0, has time_horizon
\* + 1 values and satisfies value[t] = value[t-1] * (1 + draw[t]) for every
\* step t in 1..time_horizon, with one draw per step.
C25_PathOfHorizon ==
    op = "_run_single_simulation" => PathCompounds(args.time_horizon + 1)

\* C25, for every int: a path has time_horizon + 1 values for time_horizon >=
\* 0 and the one value 1.0, without draw, for a negative time_horizon.
C25_PathOfSteps ==
    op = "_run_single_simulation" =>
        PathCompounds(IF args.time_horizon >= 0 THEN args.time_horizon + 1 ELSE 1)

\* A path of three steps whose values differ.
C25_Witness ==
    /\ op = "_run_single_simulation"
    /\ args.time_horizon = 3
    /\ Len(result.value) = 4
    /\ \A i, j \in 1..4 : result.value[i] = result.value[j] => i = j
    /\ ~FIsNaN(result.value[4])

---------------------------------------------------------------------------
(* Claims about the performance against a stored benchmark *)

\* The named benchmark has levels on two consecutive dates of the price table.
SharesTwoDates ==
    /\ TruthyStr(args.benchmark_name)
    /\ args.benchmark_name \in DOMAIN benchmark_data.px
    /\ benchmark_data.rows >= 2
    /\ asset_data.rows >= 2

\* C26: calculate_historical_performance called with the name of a benchmark
\* whose levels share two consecutive dates with the price table succeeds,
\* and its benchmark_comparison is not None.  (A call whose holdings are
\* missing or cannot be read fails, benchmark or not.)
C26_BenchmarkCompared ==
    (/\ op = "calculate_historical_performance"
     /\ SharesTwoDates
     /\ holding_data # <<>>)
        => \/ /\ IsOk(result)
              /\ result.value.benchmark_comparison # None
           \/ /\ IsRaise(result)
              /\ result.msg = <<"Performance calculation failed: ">> \o HoldingsQueryFails.msg

---------------------------------------------------------------------------
(* Claims about the analysis runs *)

TerminalStatus == {"succeeded", "failed"}

\* C27: every analysis run an endpoint has created eventually has status
\* succeeded or failed, whether the engine call returns or raises.
C27_RunReachesTerminalStatus ==
    \A r \in 1..MaxRuns :
        (r \in DOMAIN analysis_runs)
            ~> (r \in DOMAIN analysis_runs /\ analysis_runs[r].status \in TerminalStatus)

\* C28: a run is succeeded only with its result stored: every succeeded run
\* has a row of results, and GET /results of a succeeded run, its queries
\* answered, returns a list that is not empty.
C28_SucceededHasResult ==
    /\ \A r \in DOMAIN analysis_runs :
           analysis_runs[r].status = "succeeded"
               => \E row \in result_rows : row.analysis_run_id = r
    /\ (/\ op = "get_analysis_results"
        /\ IsOk(result)
        /\ ~args.query_failed
        /\ args.result_type = None)
           => result.value.results # {}

---------------------------------------------------------------------------
(* Claims about the demo session *)

\* Task k takes a step.
TaskActs(k) ==
    /\ file_tasks[k].pc \in {"scheduled", "reading", "storing"}
    /\ file_tasks'[k].pc # file_tasks[k].pc

\* C29: a file-processing task changes only the session it was started for:
\* no step of a task started for another session changes the files or the
\* analysis results of the session there is now.
C29_TaskKeepsToItsSession ==
    [][\A k \in DOMAIN file_tasks :
           (/\ TaskActs(k)
            /\ CURRENT_SESSION.session_id # NoRecord
            /\ file_tasks[k].session_id # CURRENT_SESSION.session_id)
               => CURRENT_SESSION' = CURRENT_SESSION]_vars

\* C30: whenever the analysis results are there with status completed, the
\* session holds an assets file record with status completed.
C30_CompletedResultsHaveAssets ==
    (/\ GetAnalysisStatus(CURRENT_SESSION).analysis_ready
     /\ CURRENT_SESSION.analysis_results.status = "completed")
        => /\ "assets" \in DOMAIN CURRENT_SESSION.files
           /\ CURRENT_SESSION.files["assets"].status = "completed"

=============================================================================
